---- MODULE Spec2Model ----
(***************************************************************************)
(* Biometric enrollment / verification pipeline and template lifecycle of  *)
(* the authentication system (app/services/biometric_service.py,           *)
(* app/services/fingerprint_service.py, app/routers/biometric.py).         *)
(*                                                                         *)
(* Representation choices                                                  *)
(*  - A feature vector is a tuple of small integers.  Face vectors have    *)
(*    length 2 and fingerprint vectors length 3 (16384 and 32 components   *)
(*    in the code), so that a cross-modality comparison is a shape         *)
(*    mismatch exactly as it is for numpy.                                 *)
(*  - A similarity score x >= 0 is carried exactly, as the fraction        *)
(*    num/den = x^2 (squared cosine); order and threshold comparisons on   *)
(*    non-negative numbers are the same on the squares.                    *)
(*  - Thresholds are integers in hundredths (60 = 0.60).                   *)
(*  - Quality scores are integers in units of 1/160000 (160000 = 1.0).     *)
(*  - template_id 0 and last_used 0 stand for None / NULL.                 *)
(***************************************************************************)
EXTENDS Integers, Sequences, FiniteSets, TLC

\* ------------------------------------------------------------------------
\* Bounds
\* ------------------------------------------------------------------------
MaxTemplates == 2
MaxId == 2
MaxFrames == 2
MaxCount == 2
MaxRows == 3
MaxTime == 3
MaxLogs == 3
MaxResets == 2
MaxRequests == 4
MaxDims == 3
MaxPixel == 3
MaxExtra == 2

\* ------------------------------------------------------------------------
\* Program constants
\* ------------------------------------------------------------------------
BIOMETRIC_THRESHOLD == 60
default_threshold == 75

\* Durations in units of 30 minutes, the unit of the clock
ACCESS_TOKEN_EXPIRE_MINUTES == 1
REFRESH_TOKEN_EXPIRE_DAYS == 336
LockoutAttempts == 5
LockoutTime == 1
ResetTokenLifetime == 2
StartTime == 1
NoTime == 0

Users == {1, 2}
FACE == "face"
FINGERPRINT == "fingerprint"

NoneId == 0
NoVec == <<>>
NoQuality == -1
NoThreshold == [given |-> FALSE, value |-> 0]

\* ------------------------------------------------------------------------
\* Scores
\* ------------------------------------------------------------------------
\* A score is the double the scorer returns: num/den is the square of its
\* exact value, units its distance from that value in units of 2^-53
\* (the rounding of the double arithmetic)
Score(num, den, units) == [num |-> num, den |-> den, units |-> units]

ZeroScore == Score(0, 1, 0)
NoScore == Score(0, 0, 0)

\* s1 > s2 on the represented numbers
ScoreGT(s1, s2) ==
    LET l == s1.num * s2.den
        r == s2.num * s1.den
    IN  l > r \/ (l = r /\ s1.den # 0 /\ s2.den # 0 /\ s1.units > s2.units)

\* s >= t/100 on the represented numbers
ScoreGE(s, t) ==
    IF t <= 0 THEN TRUE
    ELSE \/ s.num * 10000 > t * t * s.den
         \/ s.num * 10000 = t * t * s.den /\ s.units >= 0

ScoreEQ(s1, s2) == s1.num * s2.den = s2.num * s1.den /\ s1.units = s2.units

RECURSIVE Dot(_, _)
Dot(a, b) == IF a = <<>> THEN 0 ELSE Head(a) * Head(b) + Dot(Tail(a), Tail(b))

NormSq(a) == Dot(a, a)

\* dot_product / (norm1 * norm2) in IEEE-754 doubles for parallel vectors
\* of squared norms n1 and n2 (dot_product * dot_product = n1 * n2), as the
\* distance of the quotient from 1.0 in units of 2^-53. np.linalg.norm is
\* sqrt(dot(x, x)), correctly rounded; sqrt(2.0) * sqrt(2.0) is
\* 2.0000000000000004 and sqrt(3.0) * sqrt(3.0) is 2.9999999999999996.
\* Squared norms up to 12.
Quotient(n1, n2) ==
    CASE <<n1, n2>> \in {<<2, 2>>, <<2, 8>>, <<8, 2>>, <<8, 8>>, <<5, 5>>, <<10, 10>>} -> -2
      [] <<n1, n2>> \in {<<7, 7>>} -> -1
      [] <<n1, n2>> \in {<<3, 3>>, <<3, 12>>, <<12, 3>>, <<12, 12>>, <<6, 6>>} -> 2
      [] <<n1, n2>> \in {<<1, 1>>, <<1, 4>>, <<4, 1>>, <<1, 9>>, <<9, 1>>, <<4, 4>>,
                         <<4, 9>>, <<9, 4>>, <<9, 9>>, <<11, 11>>} -> 0

\* BiometricService.calculate_similarity: cosine similarity, max(0.0, .);
\* a shape mismatch raises inside np.dot and the handler returns 0.0
calculate_similarity(features1, features2) ==
    IF Len(features1) # Len(features2) THEN ZeroScore
    ELSE LET d == Dot(features1, features2)
             n1 == NormSq(features1)
             n2 == NormSq(features2)
         IN  IF n1 = 0 \/ n2 = 0 THEN ZeroScore
             ELSE IF d <= 0 THEN ZeroScore
             ELSE IF d * d = n1 * n2 THEN Score(1, 1, Quotient(n1, n2))
             ELSE Score(d * d, n1 * n2, 0)

\* FingerprintService.calculate_fingerprint_similarity: the same cosine,
\* clamped to [0, 1]
calculate_fingerprint_similarity(features1, features2) ==
    IF Len(features1) # Len(features2) THEN ZeroScore
    ELSE LET d == Dot(features1, features2)
             n1 == NormSq(features1)
             n2 == NormSq(features2)
         IN  IF n1 = 0 \/ n2 = 0 THEN ZeroScore
             ELSE IF d <= 0 THEN ZeroScore
             ELSE IF d * d = n1 * n2
                  THEN LET similarity == Quotient(n1, n2)
                       IN  Score(1, 1, IF similarity > 0 THEN 0 ELSE similarity)
             ELSE Score(d * d, n1 * n2, 0)

\* ------------------------------------------------------------------------
\* Crypto layer (app/utils/security.py): Fernet under the process-wide key
\* ------------------------------------------------------------------------
encrypt_data(data) == [cipher |-> data]
decrypt_data(encrypted_data) == encrypted_data.cipher

\* ------------------------------------------------------------------------
\* Inputs
\* ------------------------------------------------------------------------
\* What face detection and feature extraction produce for one decoded frame:
\* faces_detected, the encoding of the first detected face (NoVec when
\* extract_face_encoding returned None) and its quality score.
\* Quality 1.0 in the unit of quality scores: 1/(2 * 10000 * 8), the unit
\* in which the fingerprint quality of a short sample is an integer
QualityOne == 2 * 10000 * 8

NoFaceFrame == [faces |-> 0, encoding |-> NoVec, quality |-> 0]
NoEncodingFrame == [faces |-> 1, encoding |-> NoVec, quality |-> 0]
FaceFrame(v, q) == [faces |-> 1, encoding |-> v, quality |-> q]

Frames ==
    {NoFaceFrame, NoEncodingFrame,
     FaceFrame(<<1, 0>>, 0), FaceFrame(<<1, 0>>, QualityOne \div 2),
     FaceFrame(<<1, 1>>, QualityOne \div 2), FaceFrame(<<0, 1>>, QualityOne)}

RECURSIVE SeqsUpTo(_, _)
SeqsUpTo(S, n) ==
    IF n = 0 THEN {<<>>}
    ELSE LET shorter == SeqsUpTo(S, n - 1)
         IN  shorter \cup {Append(s, x) : s \in {t \in shorter : Len(t) = n - 1}, x \in S}

\* Fingerprint samples: raw byte strings
Samples == {<<7>>, <<7, 7>>, <<7, 9>>}

\* A request payload (base64 text): missing (empty string), malformed
\* (base64 decoding raises), or well-formed with its decoded content.
Payload(k, f, s) == [kind |-> k, frames |-> f, sample |-> s]
MissingPayload == Payload("missing", <<>>, <<>>)
MalformedPayload == Payload("malformed", <<>>, <<>>)
VideoPayloads(frames, n) == {Payload("ok", f, <<>>) : f \in SeqsUpTo(frames, n)}
SamplePayloads(samples) == {Payload("ok", <<>>, x) : x \in samples}
BadPayloads == {MissingPayload, MalformedPayload}

Thresholds == {NoThreshold} \cup {[given |-> TRUE, value |-> t] : t \in {0, 99}}

\* ------------------------------------------------------------------------
\* State
\* ------------------------------------------------------------------------
VARIABLES
    templates,      \* biometric_templates rows, in rowid order
    is_enrolled,    \* users.is_enrolled
    phase,          \* "idle", "pending" (request received) or "done" (response ready)
    pre,            \* the rows and flags as the handler of the request found them
    last,           \* the request in flight and, once handled, its response
    sessions,       \* concurrent requests: each database session and its position
    users,          \* users rows, in rowid order
    auth_logs,      \* auth_logs rows, in rowid order
    now,            \* the clock, in units of 30 minutes
    tokens,         \* the JWTs issued so far
    reset_tokens,   \* how many password-reset tokens were generated so far
    reply,          \* the response of the last account request
    served,         \* how many account requests were handled so far
    call,           \* a direct call of a service function: arguments and result
    files,          \* the temporary video files of the working directory
    workers         \* the extract_frames calls in progress, one per worker

\* What the biometric handlers leave alone
account_vars == <<users, auth_logs, now, tokens, reset_tokens, reply, served, call, files, workers>>

vars == <<templates, is_enrolled, phase, pre, last, sessions,
          users, auth_logs, now, tokens, reset_tokens, reply, served, call, files, workers>>

\* A result as BiometricResult carries it, plus the HTTP status
Result(st, ok, msg, score, thr, q, tid) ==
    [status |-> st, success |-> ok, message |-> msg, similarity_score |-> score,
     threshold_used |-> thr, quality_score |-> q, template_id |-> tid]

NoResult == Result(0, FALSE, "", NoScore, NoThreshold, NoQuality, NoneId)

Request(op, u, m, p, thr, rep, tid) ==
    [op |-> op, user_id |-> u, biometric_type |-> m, payload |-> p,
     threshold |-> thr, replace_existing |-> rep, template_id |-> tid]

\* ------------------------------------------------------------------------
\* Template store
\* ------------------------------------------------------------------------
Indices(ts) == 1..Len(ts)

Ids(ts) == {ts[i].id : i \in Indices(ts)}

\* SQLite rowid allocation for an INTEGER PRIMARY KEY: largest rowid + 1
NextId(ts) ==
    IF ts = <<>> THEN 1
    ELSE (CHOOSE m \in Ids(ts) : \A j \in Ids(ts) : j <= m) + 1

\* Mutant: is_primary keeps its column default, False
BiometricTemplate_NotPrimary(id, user_id, type, data, quality, active, primary) ==
    [id |-> id, user_id |-> user_id, biometric_type |-> type,
     template_data |-> data, quality_score |-> quality,
     is_active |-> active, is_primary |-> FALSE,
     verification_count |-> 0, last_used |-> 0]

BiometricTemplate(id, user_id, type, data, quality, active, primary) ==
    [id |-> id, user_id |-> user_id, biometric_type |-> type,
     template_data |-> data, quality_score |-> quality,
     is_active |-> active, is_primary |-> primary,
     verification_count |-> 0, last_used |-> 0]

\* BiometricService.get_user_templates: every row of the user
get_user_templates(ts, user_id) ==
    {i \in Indices(ts) : ts[i].user_id = user_id}

\* ------------------------------------------------------------------------
\* BiometricService (face)
\* ------------------------------------------------------------------------
\* The component of a vector that is not a number (0.0 / 0.0 in numpy)
NaN == -256

\* BiometricService.extract_face_encoding on the grey pixels of the face
\* region: features / np.linalg.norm(features). A region without pixels
\* makes cv2.resize raise and the handler return None; a division by a zero
\* norm raises nothing in numpy and gives a vector of NaN. The common scale
\* factor of a non-zero vector is left out, as the scorers divide it out.
extract_face_encoding(face_gray) ==
    IF face_gray = <<>> THEN NoVec
    ELSE IF NormSq(face_gray) = 0 THEN [i \in 1..Len(face_gray) |-> NaN]
    ELSE face_gray

\* The running best of the enrollment loop
Best(enc, q, det) == [best_encoding |-> enc, best_quality |-> q, face_detected |-> det]

\* Mutant: >= instead of >, the last of the best frames wins
BetterQuality_OrEqual(quality, best_quality) == quality >= best_quality

\* if quality > best_quality
BetterQuality(quality, best_quality) == quality > best_quality

\* One iteration of "for frame in frames" in enroll_biometric
EnrollFrame(best, frame) ==
    IF frame.faces > 0
    THEN IF frame.encoding # NoVec
         THEN IF BetterQuality(frame.quality, best.best_quality)
              THEN Best(frame.encoding, frame.quality, TRUE)
              ELSE Best(best.best_encoding, best.best_quality, TRUE)
         ELSE Best(best.best_encoding, best.best_quality, TRUE)
    ELSE best

RECURSIVE EnrollScan(_, _, _)
EnrollScan(frames, i, best) ==
    IF i > Len(frames) THEN best
    ELSE EnrollScan(frames, i + 1, EnrollFrame(best, frames[i]))

\* Mutant: the UPDATE that clears the primary flags is left out
ClearPrimary_Skipped(ts, user_id) == ts

\* "Deactivate existing primary templates": UPDATE ... SET is_primary = False
\* WHERE user_id = :user_id AND is_primary
ClearPrimary(ts, user_id) ==
    [i \in Indices(ts) |->
        IF ts[i].user_id = user_id /\ ts[i].is_primary
        THEN [ts[i] EXCEPT !.is_primary = FALSE]
        ELSE ts[i]]

Outcome(ts, res, cmp) == [templates |-> ts, result |-> res, compared |-> cmp]

\* BiometricService.enroll_biometric(user_id, video_data, video_format)
enroll_biometric(ts, user_id, video_data) ==
    IF video_data.kind = "malformed"
    THEN Outcome(ts, Result(200, FALSE, "Enrollment failed: Invalid video data format",
                            NoScore, NoThreshold, NoQuality, NoneId), {})
    ELSE IF video_data.frames = <<>>
    THEN Outcome(ts, Result(200, FALSE, "No frames could be extracted from video",
                            NoScore, NoThreshold, NoQuality, NoneId), {})
    ELSE LET best == EnrollScan(video_data.frames, 1, Best(NoVec, 0, FALSE))
         IN  IF best.best_encoding = NoVec
             THEN Outcome(ts, Result(200, FALSE, "No valid face encoding could be extracted",
                                     NoScore, NoThreshold, best.best_quality, NoneId), {})
             ELSE LET template == BiometricTemplate(NextId(ts), user_id, FACE,
                                      encrypt_data(best.best_encoding),
                                      best.best_quality, TRUE, TRUE)
                  IN  Outcome(Append(ClearPrimary(ts, user_id), template),
                              Result(200, TRUE, "Biometric template enrolled successfully",
                                     NoScore, NoThreshold, best.best_quality, template.id),
                              {})

\* Mutant: "threshold or default", a supplied 0.0 falls back to the default
FaceThreshold_Falsy(threshold) ==
    IF threshold.given /\ threshold.value # 0 THEN threshold
    ELSE [given |-> TRUE, value |-> BIOMETRIC_THRESHOLD]

\* threshold = settings.BIOMETRIC_THRESHOLD if threshold is None
FaceThreshold(threshold) ==
    IF threshold.given THEN threshold ELSE [given |-> TRUE, value |-> BIOMETRIC_THRESHOLD]

\* The rows verify_biometric queries: user_id == user_id, is_active == True
ActiveTemplates(ts, user_id) ==
    {i \in Indices(ts) : ts[i].user_id = user_id /\ ts[i].is_active}

\* if similarity > best_score
BetterScore(similarity, best_score) == ScoreGT(similarity, best_score)

\* "Update template usage": verification_count += 1, last_used = now.
\* last_used holds the serial number of its assignment (0 = NULL).
RecordUse(ts, i) ==
    [ts EXCEPT ![i].verification_count = @ + 1, ![i].last_used = @ + 1]

\* The running state of a comparison loop
Match(ts, score, tpl, cmp) ==
    [templates |-> ts, best_score |-> score, best_template |-> tpl, compared |-> cmp]

\* One iteration of "for template in templates" in verify_biometric
FaceCompare(m, i, encoding) ==
    LET stored_encoding == decrypt_data(m.templates[i].template_data)
        similarity == calculate_similarity(stored_encoding, encoding)
        cmp == m.compared \cup {m.templates[i].id}
    IN  IF BetterScore(similarity, m.best_score)
        THEN Match(RecordUse(m.templates, i), similarity, m.best_template, cmp)
        ELSE Match(m.templates, m.best_score, m.best_template, cmp)

RECURSIVE FaceCompareAll(_, _, _, _)
FaceCompareAll(m, rows, i, encoding) ==
    IF i > Len(m.templates) THEN m
    ELSE IF i \in rows THEN FaceCompareAll(FaceCompare(m, i, encoding), rows, i + 1, encoding)
    ELSE FaceCompareAll(m, rows, i + 1, encoding)

\* "for frame in frames" in verify_biometric
RECURSIVE VerifyScan(_, _, _, _)
VerifyScan(m, rows, frames, k) ==
    IF k > Len(frames) THEN m
    ELSE IF frames[k].faces > 0 /\ frames[k].encoding # NoVec
    THEN VerifyScan(FaceCompareAll(m, rows, 1, frames[k].encoding), rows, frames, k + 1)
    ELSE VerifyScan(m, rows, frames, k + 1)

\* BiometricService.verify_biometric(user_id, video_data, video_format, threshold)
verify_biometric(ts, user_id, video_data, thr) ==
    LET threshold == FaceThreshold(thr)
        rows == ActiveTemplates(ts, user_id)
    IN  IF rows = {}
        THEN Outcome(ts, Result(200, FALSE, "No biometric templates found for user",
                                NoScore, threshold, NoQuality, NoneId), {})
        ELSE IF video_data.kind = "malformed"
        THEN Outcome(ts, Result(200, FALSE, "Verification failed: Invalid video data format",
                                NoScore, threshold, NoQuality, NoneId), {})
        ELSE IF video_data.frames = <<>>
        THEN Outcome(ts, Result(200, FALSE, "No frames could be extracted from video",
                                NoScore, threshold, NoQuality, NoneId), {})
        ELSE LET m == VerifyScan(Match(ts, ZeroScore, 0, {}), rows, video_data.frames, 1)
                 success == ScoreGE(m.best_score, threshold.value)
             IN  Outcome(m.templates,
                         Result(200, success,
                                IF success THEN "Verification successful"
                                           ELSE "Verification failed",
                                m.best_score, threshold, NoQuality, NoneId),
                         m.compared)

\* ------------------------------------------------------------------------
\* FingerprintService
\* ------------------------------------------------------------------------
\* hashlib.sha256(fingerprint_bytes).digest() as a byte vector: a fixed
\* deterministic table; no sample has the all-zero digest
Sha256(fingerprint_bytes) ==
    CASE fingerprint_bytes = <<7>> -> <<1, 2, 0>>
      [] fingerprint_bytes = <<7, 7>> -> <<2, 1, 0>>
      [] fingerprint_bytes = <<7, 9>> -> <<0, 1, 2>>
      [] OTHER -> <<2, 2, 1>>

\* FingerprintService.extract_fingerprint_features: digest bytes / 255.0
\* (the common scale factor does not affect the cosine and is left out)
extract_fingerprint_features(fingerprint_bytes) == Sha256(fingerprint_bytes)

\* FingerprintService._calculate_entropy in bits, for samples whose bytes
\* are all equal (0 bits) or two values equally often (1 bit)
Entropy(data) ==
    IF data = <<>> THEN 0
    ELSE IF \A i \in 1..Len(data) : data[i] = data[1] THEN 0 ELSE 1

\* FingerprintService.calculate_quality_score:
\* (min(1, size / 10000) + min(1, entropy / 8)) / 2, in units of 1/QualityOne
fp_quality_score(fingerprint_bytes) ==
    LET size_score == IF Len(fingerprint_bytes) >= 10000 THEN QualityOne
                      ELSE (Len(fingerprint_bytes) * QualityOne) \div 10000
        entropy_score == IF Entropy(fingerprint_bytes) >= 8 THEN QualityOne
                         ELSE (Entropy(fingerprint_bytes) * QualityOne) \div 8
    IN  (size_score + entropy_score) \div 2

\* default_threshold if threshold is None
FingerprintThreshold(threshold) ==
    IF threshold.given THEN threshold ELSE [given |-> TRUE, value |-> default_threshold]

\* user_id == user_id, biometric_type == FINGERPRINT, is_active == True
ActiveFingerprintTemplates(ts, user_id) ==
    {i \in Indices(ts) : /\ ts[i].user_id = user_id
                         /\ ts[i].biometric_type = FINGERPRINT
                         /\ ts[i].is_active}

\* Mutant: the existing fingerprint templates stay active
DeactivateFingerprints_Skipped(ts, user_id) == ts

\* "Deactivate existing templates if replacing" in enroll_fingerprint
DeactivateFingerprints(ts, user_id) ==
    [i \in Indices(ts) |->
        IF i \in ActiveFingerprintTemplates(ts, user_id)
        THEN [ts[i] EXCEPT !.is_active = FALSE, !.is_primary = FALSE]
        ELSE ts[i]]

\* FingerprintService.enroll_fingerprint(user_id, fingerprint_data)
enroll_fingerprint(ts, user_id, fingerprint_data) ==
    IF fingerprint_data.kind = "malformed"
    THEN Outcome(ts, Result(200, FALSE,
                            "Fingerprint enrollment failed: Invalid fingerprint data format",
                            NoScore, NoThreshold, NoQuality, NoneId), {})
    ELSE LET fingerprint_bytes == fingerprint_data.sample
             features == extract_fingerprint_features(fingerprint_bytes)
             quality_score == fp_quality_score(fingerprint_bytes)
             new_template == BiometricTemplate(NextId(ts), user_id, FINGERPRINT,
                                 encrypt_data(features), quality_score, TRUE, TRUE)
         IN  Outcome(Append(DeactivateFingerprints(ts, user_id), new_template),
                     Result(200, TRUE, "Fingerprint enrollment successful",
                            NoScore, NoThreshold, quality_score, new_template.id), {})

\* One iteration of "for template in templates" in verify_fingerprint
FingerprintCompare(m, i, input_features) ==
    LET stored_features == decrypt_data(m.templates[i].template_data)
        similarity == calculate_fingerprint_similarity(input_features, stored_features)
        cmp == m.compared \cup {m.templates[i].id}
    IN  IF BetterScore(similarity, m.best_score)
        THEN Match(m.templates, similarity, i, cmp)
        ELSE Match(m.templates, m.best_score, m.best_template, cmp)

RECURSIVE FingerprintCompareAll(_, _, _, _)
FingerprintCompareAll(m, rows, i, input_features) ==
    IF i > Len(m.templates) THEN m
    ELSE IF i \in rows
    THEN FingerprintCompareAll(FingerprintCompare(m, i, input_features), rows, i + 1,
                               input_features)
    ELSE FingerprintCompareAll(m, rows, i + 1, input_features)

\* FingerprintService.verify_fingerprint(user_id, fingerprint_data, threshold)
verify_fingerprint(ts, user_id, fingerprint_data, thr) ==
    LET threshold == FingerprintThreshold(thr)
        rows == ActiveFingerprintTemplates(ts, user_id)
    IN  IF rows = {}
        THEN Outcome(ts, Result(200, FALSE, "No fingerprint templates found for user",
                                NoScore, threshold, NoQuality, NoneId), {})
        ELSE IF fingerprint_data.kind = "malformed"
        THEN Outcome(ts, Result(200, FALSE,
                                "Fingerprint verification failed: Invalid fingerprint data format",
                                NoScore, threshold, NoQuality, NoneId), {})
        ELSE LET input_features == extract_fingerprint_features(fingerprint_data.sample)
                 m == FingerprintCompareAll(Match(ts, ZeroScore, 0, {}), rows, 1, input_features)
                 verification_success == ScoreGE(m.best_score, threshold.value)
                 used == verification_success /\ m.best_template # 0
             IN  Outcome(IF used THEN RecordUse(m.templates, m.best_template) ELSE m.templates,
                         Result(200, verification_success,
                                IF verification_success
                                THEN "Fingerprint verification successful"
                                ELSE "Fingerprint verification failed",
                                m.best_score, threshold, NoQuality,
                                IF m.best_template # 0 THEN m.templates[m.best_template].id
                                ELSE NoneId),
                         m.compared)

\* Mutant: the query filters on the id alone
FindTemplate_AnyOwner(ts, template_id, user_id) ==
    IF \E i \in Indices(ts) : ts[i].id = template_id
    THEN CHOOSE i \in Indices(ts) : ts[i].id = template_id
    ELSE 0

\* BiometricService.delete_template(template_id, user_id): the row with that
\* id and owner, 0 when the query finds none
FindTemplate(ts, template_id, user_id) ==
    IF \E i \in Indices(ts) : ts[i].id = template_id /\ ts[i].user_id = user_id
    THEN CHOOSE i \in Indices(ts) : ts[i].id = template_id /\ ts[i].user_id = user_id
    ELSE 0

\* db.delete of the rows at the positions in gone
RECURSIVE DeleteRows(_, _, _)
DeleteRows(ts, gone, i) ==
    IF i > Len(ts) THEN <<>>
    ELSE IF i \in gone THEN DeleteRows(ts, gone, i + 1)
    ELSE <<ts[i]>> \o DeleteRows(ts, gone, i + 1)

delete_template(ts, template_id, user_id) ==
    LET i == FindTemplate(ts, template_id, user_id)
    IN  IF i # 0 THEN [templates |-> DeleteRows(ts, {i}, 1), ok |-> TRUE]
        ELSE [templates |-> ts, ok |-> FALSE]

\* FingerprintService.delete_user_fingerprint_templates(user_id): every
\* fingerprint row of the user, active or not
delete_user_fingerprint_templates(ts, user_id) ==
    DeleteRows(ts, {i \in Indices(ts) : /\ ts[i].user_id = user_id
                                        /\ ts[i].biometric_type = FINGERPRINT}, 1)

\* ------------------------------------------------------------------------
\* Router (app/routers/biometric.py); the request object is read the way
\* the handlers read it: biometric_type, video_data / fingerprint_data,
\* replace_existing, threshold
\* ------------------------------------------------------------------------
HttpError(st, detail) == Result(st, FALSE, detail, NoScore, NoThreshold, NoQuality, NoneId)

\* "If replace_existing is True, deactivate existing templates"
ReplaceExisting(ts, user_id, biometric_type) ==
    IF biometric_type = FACE
    THEN [i \in Indices(ts) |->
            IF i \in get_user_templates(ts, user_id)
            THEN [ts[i] EXCEPT !.is_active = FALSE]
            ELSE ts[i]]
    ELSE IF biometric_type = FINGERPRINT
    THEN delete_user_fingerprint_templates(ts, user_id)
    ELSE ts

\* POST /enroll: the rows, the flag of the user and the response
RouterEnroll(ts, enrolled, user_id, biometric_type, payload, replace_existing) ==
    LET ts1 == IF replace_existing THEN ReplaceExisting(ts, user_id, biometric_type) ELSE ts
        fail(st, detail) == [templates |-> ts1, is_enrolled |-> enrolled,
                             result |-> HttpError(st, detail)]
        done(out) == [templates |-> out.templates,
                      is_enrolled |-> IF out.result.success THEN TRUE ELSE enrolled,
                      result |-> out.result]
    IN  IF biometric_type = FACE
        THEN IF payload.kind = "missing"
             THEN fail(400, "Video data required for face enrollment")
             ELSE done(enroll_biometric(ts1, user_id, payload))
        ELSE IF biometric_type = FINGERPRINT
        THEN IF payload.kind = "missing"
             THEN fail(400, "Fingerprint data required for fingerprint enrollment")
             ELSE done(enroll_fingerprint(ts1, user_id, payload))
        ELSE fail(400, "Unsupported biometric type. Supported: face, fingerprint")

\* POST /verify
RouterVerify(ts, enrolled, user_id, biometric_type, payload, threshold) ==
    IF ~enrolled
    THEN Outcome(ts, HttpError(400, "User has no biometric templates enrolled"), {})
    ELSE IF biometric_type = FACE
    THEN IF payload.kind = "missing"
         THEN Outcome(ts, HttpError(400, "Video data required for face verification"), {})
         ELSE verify_biometric(ts, user_id, payload, threshold)
    ELSE IF biometric_type = FINGERPRINT
    THEN IF payload.kind = "missing"
         THEN Outcome(ts, HttpError(400,
                          "Fingerprint data required for fingerprint verification"), {})
         ELSE verify_fingerprint(ts, user_id, payload, threshold)
    ELSE Outcome(ts, HttpError(400,
                     "Unsupported biometric type. Supported: face, fingerprint"), {})

\* The attributes the request schemas declare (app/schemas/biometric.py)
BiometricEnrollment == {"video_data", "video_format", "replace_existing"}
BiometricVerification == {"video_data", "video_format", "threshold"}

\* POST /enroll as the application serves it. The body is validated against
\* BiometricEnrollment first: video_data is required, and a client of
\* another modality sends none. The handler then reads the request object;
\* reading an attribute the schema does not declare raises AttributeError,
\* which the handler's "except Exception" answers with 500. The first such
\* read comes before any template is touched.
PostEnroll(ts, enrolled, user_id, req) ==
    LET rejected(st, detail) == [templates |-> ts, is_enrolled |-> enrolled,
                                 result |-> HttpError(st, detail)]
    IN  IF req.biometric_type # FACE
        THEN rejected(422, "Field required: video_data")
        ELSE IF ~({"biometric_type", "fingerprint_data"} \subseteq BiometricEnrollment)
        THEN rejected(500, "Biometric enrollment failed")
        ELSE RouterEnroll(ts, enrolled, user_id, req.biometric_type, req.payload,
                          req.replace_existing)

\* POST /verify as the application serves it
PostVerify(ts, enrolled, user_id, req) ==
    IF req.biometric_type # FACE
    THEN Outcome(ts, HttpError(422, "Field required: video_data"), {})
    ELSE IF ~enrolled
    THEN Outcome(ts, HttpError(400, "User has no biometric templates enrolled"), {})
    ELSE IF ~({"biometric_type", "fingerprint_data"} \subseteq BiometricVerification)
    THEN Outcome(ts, HttpError(500, "Biometric verification failed"), {})
    ELSE RouterVerify(ts, enrolled, user_id, req.biometric_type, req.payload, req.threshold)

\* Mutant: any remaining template, active or not, keeps the user enrolled
RouterDelete_AnyRemaining(ts, enrolled, user_id, template_id) ==
    LET d == delete_template(ts, template_id, user_id)
    IN  IF ~d.ok
        THEN [templates |-> ts, is_enrolled |-> enrolled,
              result |-> HttpError(404, "Template not found or access denied")]
        ELSE [templates |-> d.templates,
              is_enrolled |-> IF get_user_templates(d.templates, user_id) = {}
                              THEN FALSE ELSE enrolled,
              result |-> Result(200, TRUE, "Template deleted successfully",
                                NoScore, NoThreshold, NoQuality, NoneId)]

\* DELETE /templates/{template_id}
RouterDelete(ts, enrolled, user_id, template_id) ==
    LET d == delete_template(ts, template_id, user_id)
        active_templates == {i \in get_user_templates(d.templates, user_id) :
                                d.templates[i].is_active}
    IN  IF ~d.ok
        THEN [templates |-> ts, is_enrolled |-> enrolled,
              result |-> HttpError(404, "Template not found or access denied")]
        ELSE [templates |-> d.templates,
              is_enrolled |-> IF active_templates = {} THEN FALSE ELSE enrolled,
              result |-> Result(200, TRUE, "Template deleted successfully",
                                NoScore, NoThreshold, NoQuality, NoneId)]

\* Mutant: the is_active check of the target is left out
RouterSetPrimary_NoActiveCheck(ts, user_id, template_id) ==
    LET rows == get_user_templates(ts, user_id)
        target == IF \E i \in rows : ts[i].id = template_id
                  THEN CHOOSE i \in rows : ts[i].id = template_id
                  ELSE 0
    IN  IF target = 0
        THEN [templates |-> ts, result |-> HttpError(404, "Template not found")]
        ELSE [templates |->
                [i \in Indices(ts) |->
                    IF i = target THEN [ts[i] EXCEPT !.is_primary = TRUE]
                    ELSE IF i \in rows THEN [ts[i] EXCEPT !.is_primary = FALSE]
                    ELSE ts[i]],
              result |-> Result(200, TRUE, "Primary template updated successfully",
                                NoScore, NoThreshold, NoQuality, NoneId)]

\* POST /templates/{template_id}/set-primary
RouterSetPrimary(ts, user_id, template_id) ==
    LET rows == get_user_templates(ts, user_id)
        target == IF \E i \in rows : ts[i].id = template_id
                  THEN CHOOSE i \in rows : ts[i].id = template_id
                  ELSE 0
    IN  IF target = 0
        THEN [templates |-> ts, result |-> HttpError(404, "Template not found")]
        ELSE IF ~ts[target].is_active
        THEN [templates |-> ts,
              result |-> HttpError(400, "Cannot set inactive template as primary")]
        ELSE [templates |->
                [i \in Indices(ts) |->
                    IF i = target THEN [ts[i] EXCEPT !.is_primary = TRUE]
                    ELSE IF i \in rows THEN [ts[i] EXCEPT !.is_primary = FALSE]
                    ELSE ts[i]],
              result |-> Result(200, TRUE, "Primary template updated successfully",
                                NoScore, NoThreshold, NoQuality, NoneId)]

\* ------------------------------------------------------------------------
\* Accounts (app/services/auth_service.py, app/services/user_service.py,
\* app/utils/security.py, cascades of app/models/user.py)
\* ------------------------------------------------------------------------
Usernames == {"alice", "bob"}
Emails == {"alice@x.org", "bob@x.org"}
Passwords == {"pw-one", "pw-two"}

\* passlib bcrypt: a hash verifies exactly the password it was made from
get_password_hash(password) == [bcrypt |-> password]

\* Mutant: every password verifies
verify_password_Any(plain_password, hashed_password) == TRUE

verify_password(plain_password, hashed_password) == hashed_password.bcrypt = plain_password

\* A users row as AuthService.create_user writes it
User(id, username, email, password) ==
    [id |-> id, username |-> username, email |-> email,
     hashed_password |-> get_password_hash(password),
     is_active |-> TRUE, failed_login_attempts |-> 0,
     account_locked_until |-> NoTime, last_login |-> NoTime,
     password_reset_token |-> 0, password_reset_expires |-> NoTime]

\* The position of the first row of rows that satisfies matches, 0 for none
First(rows, matches(_)) ==
    IF \E i \in Indices(rows) : matches(rows[i])
    THEN CHOOSE i \in Indices(rows) :
            matches(rows[i]) /\ \A j \in 1..(i - 1) : ~matches(rows[j])
    ELSE 0

get_user_by_id(us, user_id) == LET m(u) == u.id = user_id IN First(us, m)
get_user_by_username(us, username) == LET m(u) == u.username = username IN First(us, m)
get_user_by_email(us, email) == LET m(u) == u.email = email IN First(us, m)

\* rowid allocation of users and auth_logs: largest id + 1
NextRowId(rows) ==
    IF rows = <<>> THEN 1
    ELSE (CHOOSE m \in {rows[i].id : i \in Indices(rows)} :
            \A i \in Indices(rows) : rows[i].id <= m) + 1

\* AuthService.create_user: the unique indexes on username and email make
\* the INSERT fail (rollback, the exception is raised again)
create_user(us, username, email, password) ==
    IF get_user_by_username(us, username) # 0 \/ get_user_by_email(us, email) # 0
    THEN [ok |-> FALSE, users |-> us, id |-> 0]
    ELSE [ok |-> TRUE,
          users |-> Append(us, User(NextRowId(us), username, email, password)),
          id |-> NextRowId(us)]

\* Mutant: no account is ever taken as locked
Locked_Never(user, t) == FALSE

\* The lockout of authenticate_user: account_locked_until and
\* account_locked_until > datetime.now()
Locked(user, t) == user.account_locked_until # NoTime /\ user.account_locked_until > t

\* Mutant: the lock is set by the fifth failure only
LockedUntil_FifthOnly(attempts, t, current) ==
    IF attempts = LockoutAttempts THEN t + LockoutTime ELSE current

\* "Lock account after 5 failed attempts": if failed_login_attempts >= 5 the
\* lock ends 30 minutes from now, whatever it was
LockedUntil(attempts, t, current) ==
    IF attempts >= LockoutAttempts THEN t + LockoutTime ELSE current

\* Mutant: the lookup returns the first row in table order that matches by
\* username or by email
authenticate_user_TableOrder(us, username, password, t) ==
    LET m(u) == u.username = username \/ u.email = username
        i == First(us, m)
    IN  IF i = 0 THEN [users |-> us, user |-> 0]
        ELSE IF ~us[i].is_active THEN [users |-> us, user |-> 0]
        ELSE IF Locked(us[i], t) THEN [users |-> us, user |-> 0]
        ELSE IF ~verify_password(password, us[i].hashed_password)
        THEN [users |-> [us EXCEPT ![i].failed_login_attempts = @ + 1], user |-> 0]
        ELSE [users |-> us, user |-> i]

\* AuthService.authenticate_user(username, password) at time t: the rows
\* after its commits and the position of the user it returns, 0 for None.
\* The lookup is "username = ? OR email = ?" with first(): SQLite answers it
\* from the unique index on username, then from the one on email, so a row
\* matching by username comes before a row matching by email.
authenticate_user(us, username, password, t) ==
    LET by_username == get_user_by_username(us, username)
        i == IF by_username # 0 THEN by_username ELSE get_user_by_email(us, username)
    IN  IF i = 0 THEN [users |-> us, user |-> 0]
        ELSE IF ~us[i].is_active THEN [users |-> us, user |-> 0]
        ELSE IF Locked(us[i], t) THEN [users |-> us, user |-> 0]
        ELSE IF ~verify_password(password, us[i].hashed_password)
        THEN LET attempts == us[i].failed_login_attempts + 1
             IN  [users |-> [us EXCEPT
                                ![i].failed_login_attempts = attempts,
                                ![i].account_locked_until = LockedUntil(attempts, t, @)],
                  user |-> 0]
        ELSE IF us[i].failed_login_attempts > 0
        THEN [users |-> [us EXCEPT ![i].failed_login_attempts = 0,
                                   ![i].account_locked_until = NoTime],
              user |-> i]
        ELSE [users |-> us, user |-> i]

\* A JWT: its claims and whether its signature verifies under SECRET_KEY
Token(sub, user_id, type, exp, signed) ==
    [sub |-> sub, user_id |-> user_id, type |-> type, exp |-> exp, signed |-> signed]

NoToken == Token("", 0, "", NoTime, FALSE)

create_access_token(user, t) ==
    Token(user.username, user.id, "access", t + ACCESS_TOKEN_EXPIRE_MINUTES, TRUE)

create_refresh_token(user, t) ==
    Token(user.username, user.id, "refresh", t + REFRESH_TOKEN_EXPIRE_DAYS, TRUE)

\* AuthService.create_tokens: the access and the refresh token
create_tokens(user, t) == {create_access_token(user, t), create_refresh_token(user, t)}

\* Mutant: the type claim of the token is not compared
verify_token_AnyType(token, token_type, t) ==
    /\ token.signed
    /\ ~(token.exp < t)

\* security.verify_token(token, token_type) at time t
verify_token(token, token_type, t) ==
    /\ token.signed
    /\ token.type = token_type
    /\ ~(token.exp < t)

\* Mutant: a deactivated user is returned like any other
get_current_user_ActiveIgnored(us, token, t) ==
    IF ~verify_token(token, "access", t) THEN 0
    ELSE get_user_by_username(us, token.sub)

\* AuthService.get_current_user(token): the position of the user, 0 for None
get_current_user(us, token, t) ==
    IF ~verify_token(token, "access", t) THEN 0
    ELSE LET i == get_user_by_username(us, token.sub)
         IN  IF i # 0 /\ us[i].is_active THEN i ELSE 0

\* AuthService.refresh_access_token(refresh_token) at time t: new tokens for
\* the user the token names; ok is false where the code raises ValueError
refresh_access_token(us, refresh_token, t) ==
    IF ~verify_token(refresh_token, "refresh", t) THEN [ok |-> FALSE, tokens |-> {}]
    ELSE LET i == get_user_by_username(us, refresh_token.sub)
         IN  IF i = 0 \/ ~us[i].is_active THEN [ok |-> FALSE, tokens |-> {}]
             ELSE [ok |-> TRUE, tokens |-> create_tokens(us[i], t)]

\* An auth_logs row
AuthLog(id, user_id, username_attempted, auth_type, auth_result, token_issued) ==
    [id |-> id, user_id |-> user_id, username_attempted |-> username_attempted,
     auth_type |-> auth_type, auth_result |-> auth_result, token_issued |-> token_issued]

\* AuthService.log_auth_attempt: db.add(auth_log); db.commit()
log_auth_attempt(logs, user_id, username_attempted, auth_type, auth_result, token_issued) ==
    Append(logs, AuthLog(NextRowId(logs), user_id, username_attempted,
                         auth_type, auth_result, token_issued))

\* Mutant: the token stays valid for twice the time
reset_password_request_Longer(us, email, reset_token, t) ==
    LET i == get_user_by_email(us, email)
    IN  IF i = 0 THEN [ok |-> FALSE, users |-> us]
        ELSE [ok |-> TRUE,
              users |-> [us EXCEPT ![i].password_reset_token = reset_token,
                                   ![i].password_reset_expires = t + 2 * ResetTokenLifetime]]

\* AuthService.reset_password_request(email) at time t, with the token
\* secrets.token_urlsafe produced
reset_password_request(us, email, reset_token, t) ==
    LET i == get_user_by_email(us, email)
    IN  IF i = 0 THEN [ok |-> FALSE, users |-> us]
        ELSE [ok |-> TRUE,
              users |-> [us EXCEPT ![i].password_reset_token = reset_token,
                                   ![i].password_reset_expires = t + ResetTokenLifetime]]

\* Mutant: the reset changes the password and leaves the lockout fields
reset_password_LockKept(us, token, new_password, t) ==
    LET m(u) == /\ u.password_reset_token # 0
                /\ u.password_reset_token = token
                /\ u.password_reset_expires > t
        i == First(us, m)
    IN  IF i = 0 THEN [ok |-> FALSE, users |-> us]
        ELSE [ok |-> TRUE,
              users |-> [us EXCEPT ![i].hashed_password = get_password_hash(new_password),
                                   ![i].password_reset_token = 0,
                                   ![i].password_reset_expires = NoTime]]

\* AuthService.reset_password(token, new_password) at time t
reset_password(us, token, new_password, t) ==
    LET m(u) == /\ u.password_reset_token # 0
                /\ u.password_reset_token = token
                /\ u.password_reset_expires > t
        i == First(us, m)
    IN  IF i = 0 THEN [ok |-> FALSE, users |-> us]
        ELSE [ok |-> TRUE,
              users |-> [us EXCEPT ![i].hashed_password = get_password_hash(new_password),
                                   ![i].password_reset_token = 0,
                                   ![i].password_reset_expires = NoTime,
                                   ![i].failed_login_attempts = 0,
                                   ![i].account_locked_until = NoTime]]

\* UserService.deactivate_user(user_id)
deactivate_user(us, user_id) ==
    LET i == get_user_by_id(us, user_id)
    IN  IF i = 0 THEN [ok |-> FALSE, users |-> us]
        ELSE [ok |-> TRUE, users |-> [us EXCEPT ![i].is_active = FALSE]]

\* The rows of a table that the delete of user user_id leaves
RECURSIVE Keep(_, _, _)
Keep(rows, user_id, i) ==
    IF i > Len(rows) THEN <<>>
    ELSE IF rows[i].user_id = user_id THEN Keep(rows, user_id, i + 1)
    ELSE <<rows[i]>> \o Keep(rows, user_id, i + 1)

\* delete_user without the cascade to the user's templates
delete_user_TemplatesKept(us, ts, logs, user_id) ==
    LET i == get_user_by_id(us, user_id)
    IN  IF i = 0 THEN [ok |-> FALSE, users |-> us, templates |-> ts, auth_logs |-> logs]
        ELSE [ok |-> TRUE,
              users |-> SubSeq(us, 1, i - 1) \o SubSeq(us, i + 1, Len(us)),
              templates |-> ts,
              auth_logs |-> Keep(logs, user_id, 1)]

\* UserService.delete_user(user_id): db.delete(user) with the cascades
\* "all, delete-orphan" of User.biometric_templates and User.auth_logs
delete_user(us, ts, logs, user_id) ==
    LET i == get_user_by_id(us, user_id)
    IN  IF i = 0 THEN [ok |-> FALSE, users |-> us, templates |-> ts, auth_logs |-> logs]
        ELSE [ok |-> TRUE,
              users |-> SubSeq(us, 1, i - 1) \o SubSeq(us, i + 1, Len(us)),
              templates |-> Keep(ts, user_id, 1),
              auth_logs |-> Keep(logs, user_id, 1)]

\* The response of an account request
Reply(op, status, success, user_id, token) ==
    [op |-> op, status |-> status, success |-> success, user_id |-> user_id, token |-> token]

NoReply == Reply("none", 0, FALSE, 0, NoToken)

\* The users every biometric request comes from: registered through
\* POST /register, with the ledger records of their registration
RegisteredUsers ==
    <<User(1, "alice", "alice@x.org", "pw-one"), User(2, "bob", "bob@x.org", "pw-two")>>

RegistrationLogs ==
    <<AuthLog(1, 1, "alice", "registration", "success", FALSE),
      AuthLog(2, 2, "bob", "registration", "success", FALSE)>>

\* ------------------------------------------------------------------------
\* Specification: a request is received, its handler runs to completion,
\* the response is delivered
\* ------------------------------------------------------------------------
\* A video as cap.read() delivers it: its frames in stream order, and the
\* number of the frame whose reading or conversion raises (0: none does)
Video(frames, fault) == [frames |-> frames, fault |-> fault]

\* The most frames extract_frames keeps
FrameLimit == 30

\* The workers that run extract_frames in parallel, and the locals of one
\* such call: its position, its argument, the name of its temporary file,
\* the bytes its capture has open, and the frames it has read
Workers == {1, 2}

Worker(pc, video_bytes, temp_filename, cap, frames) ==
    [pc |-> pc, video_bytes |-> video_bytes, temp_filename |-> temp_filename,
     cap |-> cap, frames |-> frames]

NoBytes == Video(<<>>, 0)

IdleWorker == Worker("idle", NoBytes, 0, NoBytes, <<>>)

\* A call of a service function with its arguments; result is <<>> until
\* the function has returned
Call(fn, args, result) == [fn |-> fn, args |-> args, result |-> result]

NoCall == Call("none", <<>>, <<>>)

Snapshot(ts, enrolled) == [templates |-> ts, is_enrolled |-> enrolled]

NoSnapshot == Snapshot(<<>>, [u \in Users |-> FALSE])

NoRequest == Request("none", 0, "", MissingPayload, NoThreshold, FALSE, NoneId)

Exchange(req, res, cmp) == [req |-> req, result |-> res, compared |-> cmp]

WithinBounds(ts) ==
    /\ Len(ts) <= MaxTemplates
    /\ \A i \in Indices(ts) : ts[i].id <= MaxId /\ ts[i].verification_count <= MaxCount

EnrollRequests(uids, types, payloads) ==
    {Request("enroll", u, b, p, NoThreshold, rep, NoneId) :
        u \in uids, b \in types, p \in payloads, rep \in BOOLEAN}

VerifyRequests(uids, types, payloads, thresholds) ==
    {Request("verify", u, b, p, thr, FALSE, NoneId) :
        u \in uids, b \in types, p \in payloads, thr \in thresholds}

TemplateRequests(uids) ==
    {Request(op, u, "", MissingPayload, NoThreshold, FALSE, t) :
        op \in {"delete", "set_primary"}, u \in uids, t \in 1..MaxId}

\* Every handler, both users; videos of at most one frame
AllRequests ==
    EnrollRequests(Users, {FACE},
        BadPayloads \cup VideoPayloads({NoFaceFrame, FaceFrame(<<1, 0>>, QualityOne)}, 1))
    \cup EnrollRequests(Users, {FINGERPRINT}, BadPayloads \cup SamplePayloads({<<7>>}))
    \cup EnrollRequests(Users, {"iris"}, {MissingPayload})
    \cup VerifyRequests(Users, {FACE},
        BadPayloads \cup VideoPayloads({FaceFrame(<<1, 0>>, QualityOne),
                                        FaceFrame(<<1, 1>>, QualityOne)}, 1),
        {NoThreshold, [given |-> TRUE, value |-> 99]})
    \cup VerifyRequests(Users, {FINGERPRINT}, BadPayloads \cup SamplePayloads({<<7>>, <<7, 9>>}),
        {NoThreshold, [given |-> TRUE, value |-> 99]})
    \cup VerifyRequests(Users, {"iris"}, {MissingPayload}, {NoThreshold})
    \cup TemplateRequests(Users)

\* The requests that change lifecycle flags: enroll, delete, set-primary
LifecycleRequests == {req \in AllRequests : req.op # "verify"}

\* Face enrollment of one user over every video of up to MaxFrames frames
EnrollmentRequests ==
    EnrollRequests({1}, {FACE}, {MalformedPayload} \cup VideoPayloads(Frames, MaxFrames))

\* Enrollment of one user with single-frame videos and every sample, then
\* verification over every video of up to MaxFrames frames
MatchFrames ==
    {FaceFrame(<<1, 0>>, QualityOne \div 2), FaceFrame(<<1, 1>>, QualityOne \div 2),
     FaceFrame(<<0, 1>>, QualityOne)}

MatchRequests ==
    EnrollRequests({1}, {FACE}, VideoPayloads(MatchFrames, 1))
    \cup EnrollRequests({1}, {FINGERPRINT}, SamplePayloads(Samples))
    \cup VerifyRequests({1}, {FACE},
            {MalformedPayload} \cup VideoPayloads(MatchFrames \cup {NoFaceFrame}, MaxFrames),
            Thresholds)
    \cup VerifyRequests({1}, {FINGERPRINT}, {MalformedPayload} \cup SamplePayloads(Samples),
            Thresholds)

\* ------------------------------------------------------------------------
\* Concurrent requests: every request runs in its own database session
\* (get_db), and the sessions interleave between their statements.  The
\* database is the configured SQLite file: a session that has executed a
\* write statement holds the write lock until it commits.
\* ------------------------------------------------------------------------
Sessions == {1, 2}

Session(pc, req, loaded) == [pc |-> pc, req |-> req, loaded |-> loaded]

IdleSession == Session("idle", NoRequest, <<>>)

\* Some session holds the database write lock
WriteLocked(ss) == \E s \in Sessions : ss[s].pc = "cleared"

\* The rows a SELECT of the session returns, as ORM objects: the positions of
\* rows in ts, copied in order
RECURSIVE Load(_, _, _)
Load(ts, rows, i) ==
    IF i > Len(ts) THEN <<>>
    ELSE IF i \in rows THEN <<ts[i]>> \o Load(ts, rows, i + 1)
    ELSE Load(ts, rows, i + 1)

\* The flush of a commit: one UPDATE ... WHERE id = :id for every loaded
\* object with a changed attribute, setting the changed attributes only
Flush(ts, loaded, changed) ==
    [i \in Indices(ts) |->
        IF \E k \in Indices(loaded) : loaded[k].id = ts[i].id
        THEN LET k == CHOOSE n \in Indices(loaded) : loaded[n].id = ts[i].id
                 new == changed[k]
             IN  [ts[i] EXCEPT
                    !.is_active = IF new.is_active # loaded[k].is_active
                                  THEN new.is_active ELSE @,
                    !.is_primary = IF new.is_primary # loaded[k].is_primary
                                   THEN new.is_primary ELSE @,
                    !.verification_count =
                        IF new.verification_count # loaded[k].verification_count
                        THEN new.verification_count ELSE @,
                    !.last_used = IF new.last_used # loaded[k].last_used
                                  THEN new.last_used ELSE @]
        ELSE ts[i]]

\* Enroll and set-primary requests of one user, without replace_existing
ConcurrentRequests ==
    {req \in EnrollRequests({1}, {FACE}, VideoPayloads({FaceFrame(<<1, 0>>, QualityOne)}, 1))
             \cup EnrollRequests({1}, {FINGERPRINT}, SamplePayloads({<<7>>})) :
        ~req.replace_existing}
    \cup {Request("set_primary", 1, "", MissingPayload, NoThreshold, FALSE, t) :
            t \in 1..MaxRows}

Init ==
    /\ templates = <<>>
    /\ is_enrolled = [u \in Users |-> FALSE]
    /\ phase = "idle"
    /\ pre = NoSnapshot
    /\ last = Exchange(NoRequest, NoResult, {})
    /\ sessions = [s \in Sessions |-> IdleSession]
    /\ users = RegisteredUsers
    /\ auth_logs = RegistrationLogs
    /\ now = StartTime
    /\ tokens = {}
    /\ reset_tokens = 0
    /\ reply = NoReply
    /\ served = 0
    /\ call = NoCall
    /\ files = {}
    /\ workers = [w \in Workers |-> IdleWorker]

\* A client sends a request
Receive(req) ==
    /\ phase = "idle"
    /\ phase' = "pending"
    /\ last' = Exchange(req, NoResult, {})
    /\ UNCHANGED <<templates, is_enrolled, pre, sessions>>
    /\ UNCHANGED account_vars

Enroll ==
    /\ phase = "pending" /\ last.req.op = "enroll"
    /\ LET req == last.req
           r == RouterEnroll(templates, is_enrolled[req.user_id], req.user_id,
                             req.biometric_type, req.payload, req.replace_existing)
       IN  /\ WithinBounds(r.templates)
           /\ templates' = r.templates
           /\ is_enrolled' = [is_enrolled EXCEPT ![req.user_id] = r.is_enrolled]
           /\ last' = Exchange(req, r.result, {})
    /\ pre' = Snapshot(templates, is_enrolled)
    /\ phase' = "done"
    /\ UNCHANGED <<sessions, account_vars>>

Verify ==
    /\ phase = "pending" /\ last.req.op = "verify"
    /\ LET req == last.req
           r == RouterVerify(templates, is_enrolled[req.user_id], req.user_id,
                             req.biometric_type, req.payload, req.threshold)
       IN  /\ WithinBounds(r.templates)
           /\ templates' = r.templates
           /\ last' = Exchange(req, r.result, r.compared)
    /\ is_enrolled' = is_enrolled
    /\ pre' = Snapshot(templates, is_enrolled)
    /\ phase' = "done"
    /\ UNCHANGED <<sessions, account_vars>>

DeleteTemplate ==
    /\ phase = "pending" /\ last.req.op = "delete"
    /\ LET req == last.req
           r == RouterDelete(templates, is_enrolled[req.user_id], req.user_id,
                             req.template_id)
       IN  /\ templates' = r.templates
           /\ is_enrolled' = [is_enrolled EXCEPT ![req.user_id] = r.is_enrolled]
           /\ last' = Exchange(req, r.result, {})
    /\ pre' = Snapshot(templates, is_enrolled)
    /\ phase' = "done"
    /\ UNCHANGED <<sessions, account_vars>>

SetPrimary ==
    /\ phase = "pending" /\ last.req.op = "set_primary"
    /\ LET req == last.req
           r == RouterSetPrimary(templates, req.user_id, req.template_id)
       IN  /\ templates' = r.templates
           /\ last' = Exchange(req, r.result, {})
    /\ is_enrolled' = is_enrolled
    /\ pre' = Snapshot(templates, is_enrolled)
    /\ phase' = "done"
    /\ UNCHANGED <<sessions, account_vars>>

\* The response is delivered
Respond ==
    /\ phase = "done"
    /\ phase' = "idle"
    /\ pre' = NoSnapshot
    /\ last' = Exchange(NoRequest, NoResult, {})
    /\ UNCHANGED <<templates, is_enrolled, sessions>>
    /\ UNCHANGED account_vars

Next ==
    \/ \E req \in AllRequests : Receive(req)
    \/ Enroll
    \/ Verify
    \/ DeleteTemplate
    \/ SetPrimary
    \/ Respond

Spec == Init /\ [][Next]_vars

\* Lifecycle only: verification changes no lifecycle flag
NextLifecycle ==
    \/ \E req \in LifecycleRequests : Receive(req)
    \/ Enroll
    \/ DeleteTemplate
    \/ SetPrimary
    \/ Respond

SpecLifecycle == Init /\ [][NextLifecycle]_vars

\* Face enrollment over every video
NextEnroll ==
    \/ \E req \in EnrollmentRequests : Receive(req)
    \/ Enroll
    \/ Respond

SpecEnroll == Init /\ [][NextEnroll]_vars

\* Verification from every store enrollments build.  A verification reads no
\* usage counter, so its response does not depend on the verifications before
\* it: the run ends with the response to the first one.
NextVerify ==
    \/ \E req \in MatchRequests : Receive(req)
    \/ Enroll
    \/ Verify
    \/ (last.req.op = "enroll" /\ Respond)

SpecVerify == Init /\ [][NextVerify]_vars

\* A request arrives and gets its own session
Begin(s, req) ==
    /\ sessions[s].pc = "idle"
    /\ sessions' = [sessions EXCEPT ![s] = Session("begun", req, <<>>)]
    /\ UNCHANGED <<templates, is_enrolled, phase, pre, last>>
    /\ UNCHANGED account_vars

\* Face enrollment up to its UPDATE that clears the primary flags: the
\* statement takes the write lock; an enrollment without a usable encoding
\* returns before it
ClearPrimaryFlags(s) ==
    /\ sessions[s].pc = "begun"
    /\ sessions[s].req.op = "enroll" /\ sessions[s].req.biometric_type = FACE
    /\ LET req == sessions[s].req
           out == enroll_biometric(templates, req.user_id, req.payload)
       IN  IF out.result.success
           THEN /\ ~WriteLocked(sessions)
                /\ Len(templates) < MaxRows
                /\ sessions' = [sessions EXCEPT ![s].pc = "cleared"]
           ELSE sessions' = [sessions EXCEPT ![s] = IdleSession]
    /\ UNCHANGED <<templates, is_enrolled, phase, pre, last>>
    /\ UNCHANGED account_vars

\* db.add(template); db.commit() of face enrollment: the cleared flags and
\* the new primary row become visible together, the lock is released
InsertPrimary(s) ==
    /\ sessions[s].pc = "cleared"
    /\ LET req == sessions[s].req
       IN  templates' = enroll_biometric(templates, req.user_id, req.payload).templates
    /\ sessions' = [sessions EXCEPT ![s].pc = "inserted"]
    /\ UNCHANGED <<is_enrolled, phase, pre, last>>
    /\ UNCHANGED account_vars

\* Fingerprint enrollment up to its query of the active fingerprint templates
ReadFingerprints(s) ==
    /\ sessions[s].pc = "begun"
    /\ sessions[s].req.op = "enroll" /\ sessions[s].req.biometric_type = FINGERPRINT
    /\ LET req == sessions[s].req
       IN  sessions' = [sessions EXCEPT
              ![s].pc = "read",
              ![s].loaded = Load(templates,
                                 ActiveFingerprintTemplates(templates, req.user_id), 1)]
    /\ UNCHANGED <<templates, is_enrolled, phase, pre, last>>
    /\ UNCHANGED account_vars

\* db.add(new_template); db.commit() of fingerprint enrollment: the loaded
\* templates are flushed as deactivated and the new primary row is inserted
InsertFingerprint(s) ==
    /\ sessions[s].pc = "read"
    /\ ~WriteLocked(sessions)
    /\ Len(templates) < MaxRows
    /\ LET req == sessions[s].req
           loaded == sessions[s].loaded
           changed == [k \in Indices(loaded) |->
                          [loaded[k] EXCEPT !.is_active = FALSE, !.is_primary = FALSE]]
           ts1 == Flush(templates, loaded, changed)
           features == extract_fingerprint_features(req.payload.sample)
       IN  templates' = Append(ts1, BiometricTemplate(NextId(ts1), req.user_id, FINGERPRINT,
                                       encrypt_data(features),
                                       fp_quality_score(req.payload.sample), TRUE, TRUE))
    /\ sessions' = [sessions EXCEPT ![s].pc = "inserted"]
    /\ UNCHANGED <<is_enrolled, phase, pre, last>>
    /\ UNCHANGED account_vars

\* current_user.is_enrolled = True; db.commit() of the enroll handler
SetEnrolled(s) ==
    /\ sessions[s].pc = "inserted"
    /\ ~WriteLocked(sessions)
    /\ is_enrolled' = [is_enrolled EXCEPT ![sessions[s].req.user_id] = TRUE]
    /\ sessions' = [sessions EXCEPT ![s] = IdleSession]
    /\ UNCHANGED <<templates, phase, pre, last>>
    /\ UNCHANGED account_vars

\* set_primary_template up to its checks of the target: the templates of the
\* user are loaded; a missing or inactive target ends the request
ReadTemplates(s) ==
    /\ sessions[s].pc = "begun"
    /\ sessions[s].req.op = "set_primary"
    /\ LET req == sessions[s].req
           loaded == Load(templates, get_user_templates(templates, req.user_id), 1)
       IN  IF \E k \in Indices(loaded) : loaded[k].id = req.template_id /\ loaded[k].is_active
           THEN sessions' = [sessions EXCEPT ![s].pc = "loaded", ![s].loaded = loaded]
           ELSE sessions' = [sessions EXCEPT ![s] = IdleSession]
    /\ UNCHANGED <<templates, is_enrolled, phase, pre, last>>
    /\ UNCHANGED account_vars

\* The flag assignments and db.commit() of set_primary_template
CommitPrimary(s) ==
    /\ sessions[s].pc = "loaded"
    /\ ~WriteLocked(sessions)
    /\ LET req == sessions[s].req
           loaded == sessions[s].loaded
           changed == [k \in Indices(loaded) |->
                          [loaded[k] EXCEPT !.is_primary = (loaded[k].id = req.template_id)]]
       IN  templates' = Flush(templates, loaded, changed)
    /\ sessions' = [sessions EXCEPT ![s] = IdleSession]
    /\ UNCHANGED <<is_enrolled, phase, pre, last>>
    /\ UNCHANGED account_vars

\* The verify handler up to the query of the service: a user who is not
\* enrolled is answered 400; otherwise the active templates the service
\* compares are loaded
ReadVerify(s) ==
    /\ sessions[s].pc = "begun"
    /\ sessions[s].req.op = "verify"
    /\ LET req == sessions[s].req
           rows == IF req.biometric_type = FACE
                   THEN ActiveTemplates(templates, req.user_id)
                   ELSE ActiveFingerprintTemplates(templates, req.user_id)
       IN  IF is_enrolled[req.user_id]
           THEN sessions' = [sessions EXCEPT ![s].pc = "compared",
                                             ![s].loaded = Load(templates, rows, 1)]
           ELSE sessions' = [sessions EXCEPT ![s] = IdleSession]
    /\ UNCHANGED <<templates, is_enrolled, phase, pre, last>>
    /\ UNCHANGED account_vars

\* What the service computes on the objects the session loaded
SessionVerify(s) ==
    LET req == sessions[s].req
    IN  IF req.biometric_type = FACE
        THEN verify_biometric(sessions[s].loaded, req.user_id, req.payload, req.threshold)
        ELSE verify_fingerprint(sessions[s].loaded, req.user_id, req.payload, req.threshold)

\* The comparison loop and db.commit() of verification: verification_count
\* += 1 is computed on the loaded object, and the flush writes the new value
CommitVerify(s) ==
    /\ sessions[s].pc = "compared"
    /\ ~WriteLocked(sessions)
    /\ LET out == SessionVerify(s)
       IN  /\ WithinBounds(out.templates)
           /\ templates' = Flush(templates, sessions[s].loaded, out.templates)
    /\ sessions' = [sessions EXCEPT ![s] = IdleSession]
    /\ UNCHANGED <<is_enrolled, phase, pre, last>>
    /\ UNCHANGED account_vars

\* delete_template of the delete handler: the row of the caller with that id
\* is deleted and the deletion committed; without such a row the answer is 404
DeleteRow(s) ==
    /\ sessions[s].pc = "begun"
    /\ sessions[s].req.op = "delete"
    /\ LET req == sessions[s].req
           d == delete_template(templates, req.template_id, req.user_id)
       IN  IF d.ok
           THEN /\ ~WriteLocked(sessions)
                /\ templates' = d.templates
                /\ sessions' = [sessions EXCEPT ![s].pc = "deleted"]
           ELSE /\ templates' = templates
                /\ sessions' = [sessions EXCEPT ![s] = IdleSession]
    /\ UNCHANGED <<is_enrolled, phase, pre, last>>
    /\ UNCHANGED account_vars

\* remaining_templates = get_user_templates(current_user.id) of the delete
\* handler; with an active template left the request is done
ReadRemaining(s) ==
    /\ sessions[s].pc = "deleted"
    /\ LET req == sessions[s].req
           remaining_templates == Load(templates, get_user_templates(templates, req.user_id), 1)
       IN  IF \E k \in Indices(remaining_templates) : remaining_templates[k].is_active
           THEN sessions' = [sessions EXCEPT ![s] = IdleSession]
           ELSE sessions' = [sessions EXCEPT ![s].pc = "clearing",
                                             ![s].loaded = remaining_templates]
    /\ UNCHANGED <<templates, is_enrolled, phase, pre, last>>
    /\ UNCHANGED account_vars

\* current_user.is_enrolled = False; db.commit() of the delete handler
ClearEnrolled(s) ==
    /\ sessions[s].pc = "clearing"
    /\ ~WriteLocked(sessions)
    /\ is_enrolled' = [is_enrolled EXCEPT ![sessions[s].req.user_id] = FALSE]
    /\ sessions' = [sessions EXCEPT ![s] = IdleSession]
    /\ UNCHANGED <<templates, phase, pre, last>>
    /\ UNCHANGED account_vars

NextConcurrent ==
    \/ \E s \in Sessions, req \in ConcurrentRequests : Begin(s, req)
    \/ \E s \in Sessions : ClearPrimaryFlags(s)
    \/ \E s \in Sessions : InsertPrimary(s)
    \/ \E s \in Sessions : ReadFingerprints(s)
    \/ \E s \in Sessions : InsertFingerprint(s)
    \/ \E s \in Sessions : SetEnrolled(s)
    \/ \E s \in Sessions : ReadTemplates(s)
    \/ \E s \in Sessions : CommitPrimary(s)

SpecConcurrent == Init /\ [][NextConcurrent]_vars

\* User 1 has enrolled a face and a fingerprint
InitEnrolled ==
    /\ templates = enroll_fingerprint(
                       enroll_biometric(<<>>, 1, Payload("ok", <<FaceFrame(<<1, 0>>, QualityOne)>>,
                                                         <<>>)).templates,
                       1, Payload("ok", <<>>, <<7>>)).templates
    /\ is_enrolled = [u \in Users |-> u = 1]
    /\ phase = "idle"
    /\ pre = NoSnapshot
    /\ last = Exchange(NoRequest, NoResult, {})
    /\ sessions = [s \in Sessions |-> IdleSession]
    /\ users = RegisteredUsers
    /\ auth_logs = RegistrationLogs
    /\ now = StartTime
    /\ tokens = {}
    /\ reset_tokens = 0
    /\ reply = NoReply
    /\ served = 0
    /\ call = NoCall
    /\ files = {}
    /\ workers = [w \in Workers |-> IdleWorker]

\* Verifications of user 1 in parallel sessions, by face and by fingerprint,
\* with samples that match and samples that do not
SpecUsage ==
    /\ InitEnrolled
    /\ [][\/ \E s \in Sessions :
                \E req \in VerifyRequests({1}, {FACE},
                               VideoPayloads({FaceFrame(<<1, 0>>, QualityOne),
                                              FaceFrame(<<0, 1>>, QualityOne)}, 1),
                               Thresholds)
                           \cup VerifyRequests({1}, {FINGERPRINT},
                                   SamplePayloads({<<7>>, <<7, 9>>}), Thresholds) :
                    Begin(s, req)
          \/ \E s \in Sessions : ReadVerify(s)
          \/ \E s \in Sessions : CommitVerify(s)]_vars

\* Deletions and face enrollments of user 1 in parallel sessions
SpecDeleteEnroll ==
    /\ InitEnrolled
    /\ [][\/ \E s \in Sessions :
                \E req \in {r \in EnrollRequests({1}, {FACE},
                                     VideoPayloads({FaceFrame(<<1, 0>>, QualityOne)}, 1)) :
                                ~r.replace_existing}
                           \cup {Request("delete", 1, "", MissingPayload, NoThreshold,
                                         FALSE, t) : t \in 1..MaxRows} :
                    Begin(s, req)
          \/ \E s \in Sessions : ClearPrimaryFlags(s)
          \/ \E s \in Sessions : InsertPrimary(s)
          \/ \E s \in Sessions : SetEnrolled(s)
          \/ \E s \in Sessions : DeleteRow(s)
          \/ \E s \in Sessions : ReadRemaining(s)
          \/ \E s \in Sessions : ClearEnrolled(s)]_vars


\* ------------------------------------------------------------------------
\* Account requests (app/routers/auth.py, app/routers/users.py): each
\* handler runs to completion on an initially empty database
\* ------------------------------------------------------------------------
InitAccounts ==
    /\ templates = <<>>
    /\ is_enrolled = [u \in Users |-> FALSE]
    /\ phase = "idle"
    /\ pre = NoSnapshot
    /\ last = Exchange(NoRequest, NoResult, {})
    /\ sessions = [s \in Sessions |-> IdleSession]
    /\ users = <<>>
    /\ auth_logs = <<>>
    /\ now = StartTime
    /\ tokens = {}
    /\ reset_tokens = 0
    /\ reply = NoReply
    /\ served = 0
    /\ call = NoCall
    /\ files = {}
    /\ workers = [w \in Workers |-> IdleWorker]

\* The videos of register-biometric and login-biometric requests
AccountVideos == {MalformedPayload} \cup VideoPayloads({FaceFrame(<<1, 0>>, QualityOne)}, 1)

\* A token no key of the system signed
ForgedToken == Token("alice", 1, "access", MaxTime + 1, FALSE)

\* POST /auth/register
Register(username, email, password) ==
    /\ IF get_user_by_username(users, username) # 0 \/ get_user_by_email(users, email) # 0
       THEN /\ reply' = Reply("register", 400, FALSE, 0, NoToken)
            /\ UNCHANGED <<users, auth_logs, is_enrolled>>
       ELSE LET c == create_user(users, username, email, password)
            IN  /\ c.id \in Users
                /\ users' = c.users
                /\ is_enrolled' = [is_enrolled EXCEPT ![c.id] = FALSE]
                /\ auth_logs' = log_auth_attempt(auth_logs, c.id, username,
                                                 "registration", "success", FALSE)
                /\ reply' = Reply("register", 200, TRUE, c.id, NoToken)
    /\ served' = served + 1
    /\ UNCHANGED <<call, files, workers>>
    /\ UNCHANGED <<templates, phase, pre, last, sessions, now, tokens, reset_tokens>>

\* POST /auth/register-biometric
RegisterBiometric(username, email, password, video_data) ==
    /\ IF get_user_by_username(users, username) # 0
       THEN /\ reply' = Reply("register-biometric", 400, FALSE, 0, NoToken)
            /\ UNCHANGED <<users, is_enrolled, templates, tokens>>
       ELSE LET c == create_user(users, username, email, password)
            IN  IF ~c.ok
                THEN /\ reply' = Reply("register-biometric", 500, FALSE, 0, NoToken)
                     /\ UNCHANGED <<users, is_enrolled, templates, tokens>>
                ELSE LET enrollment == enroll_biometric(templates, c.id, video_data)
                         user == c.users[Len(c.users)]
                     IN  /\ c.id \in Users
                         /\ WithinBounds(enrollment.templates)
                         /\ users' = c.users
                         /\ templates' = enrollment.templates
                         /\ is_enrolled' = [is_enrolled EXCEPT
                                              ![c.id] = enrollment.result.success]
                         /\ tokens' = tokens \cup create_tokens(user, now)
                         /\ reply' = Reply("register-biometric", 200, TRUE, c.id,
                                           create_access_token(user, now))
    /\ served' = served + 1
    /\ UNCHANGED <<call, files, workers>>
    /\ UNCHANGED <<phase, pre, last, sessions, auth_logs, now, reset_tokens>>

\* POST /auth/login
Login(username, password) ==
    /\ LET a == authenticate_user(users, username, password, now)
       IN  IF a.user = 0
           THEN /\ users' = a.users
                /\ auth_logs' = log_auth_attempt(auth_logs, 0, username,
                                                 "password", "failure", FALSE)
                /\ reply' = Reply("login", 401, FALSE, 0, NoToken)
                /\ UNCHANGED tokens
           ELSE LET user == a.users[a.user]
                IN  /\ tokens' = tokens \cup create_tokens(user, now)
                    /\ users' = [a.users EXCEPT ![a.user].last_login = now]
                    /\ auth_logs' = log_auth_attempt(auth_logs, user.id, user.username,
                                                     "password", "success", TRUE)
                    /\ reply' = Reply("login", 200, TRUE, user.id,
                                      create_access_token(user, now))
    /\ served' = served + 1
    /\ UNCHANGED <<call, files, workers>>
    /\ UNCHANGED <<templates, is_enrolled, phase, pre, last, sessions, now, reset_tokens>>

\* Mutant: the result of the biometric verification is not looked at
LoginBiometric_VerifyIgnored(username, password, video_data) ==
    /\ LET a == authenticate_user(users, username, password, now)
       IN  IF a.user = 0
           THEN /\ users' = a.users
                /\ auth_logs' = log_auth_attempt(auth_logs, 0, username,
                                                 "combined", "failure", FALSE)
                /\ reply' = Reply("login-biometric", 401, FALSE, 0, NoToken)
                /\ UNCHANGED <<tokens, templates>>
           ELSE LET user == a.users[a.user]
                    v == verify_biometric(templates, user.id, video_data, NoThreshold)
                IN  /\ WithinBounds(v.templates)
                    /\ templates' = v.templates
                    /\ IF FALSE
                       THEN /\ users' = a.users
                            /\ auth_logs' = log_auth_attempt(auth_logs, user.id, user.username,
                                                             "combined", "failure", FALSE)
                            /\ reply' = Reply("login-biometric", 401, FALSE, 0, NoToken)
                            /\ UNCHANGED tokens
                       ELSE /\ tokens' = tokens \cup create_tokens(user, now)
                            /\ users' = [a.users EXCEPT ![a.user].last_login = now]
                            /\ auth_logs' = log_auth_attempt(auth_logs, user.id, user.username,
                                                             "combined", "success", TRUE)
                            /\ reply' = Reply("login-biometric", 200, TRUE, user.id,
                                              create_access_token(user, now))
    /\ served' = served + 1
    /\ UNCHANGED <<call, files, workers>>
    /\ UNCHANGED <<is_enrolled, phase, pre, last, sessions, now, reset_tokens>>

\* POST /auth/login-biometric
LoginBiometric(username, password, video_data) ==
    /\ LET a == authenticate_user(users, username, password, now)
       IN  IF a.user = 0
           THEN /\ users' = a.users
                /\ auth_logs' = log_auth_attempt(auth_logs, 0, username,
                                                 "combined", "failure", FALSE)
                /\ reply' = Reply("login-biometric", 401, FALSE, 0, NoToken)
                /\ UNCHANGED <<tokens, templates>>
           ELSE LET user == a.users[a.user]
                    v == verify_biometric(templates, user.id, video_data, NoThreshold)
                IN  /\ WithinBounds(v.templates)
                    /\ templates' = v.templates
                    /\ IF ~v.result.success
                       THEN /\ users' = a.users
                            /\ auth_logs' = log_auth_attempt(auth_logs, user.id, user.username,
                                                             "combined", "failure", FALSE)
                            /\ reply' = Reply("login-biometric", 401, FALSE, 0, NoToken)
                            /\ UNCHANGED tokens
                       ELSE /\ tokens' = tokens \cup create_tokens(user, now)
                            /\ users' = [a.users EXCEPT ![a.user].last_login = now]
                            /\ auth_logs' = log_auth_attempt(auth_logs, user.id, user.username,
                                                             "combined", "success", TRUE)
                            /\ reply' = Reply("login-biometric", 200, TRUE, user.id,
                                              create_access_token(user, now))
    /\ served' = served + 1
    /\ UNCHANGED <<call, files, workers>>
    /\ UNCHANGED <<is_enrolled, phase, pre, last, sessions, now, reset_tokens>>

\* AuthService.reset_password_request(email)
ResetPasswordRequest(email) ==
    /\ reset_tokens < MaxResets
    /\ LET r == reset_password_request(users, email, reset_tokens + 1, now)
       IN  /\ users' = r.users
           /\ reset_tokens' = IF r.ok THEN reset_tokens + 1 ELSE reset_tokens
           /\ reply' = Reply("reset-request", 200, r.ok, 0, NoToken)
    /\ served' = served + 1
    /\ UNCHANGED <<call, files, workers>>
    /\ UNCHANGED <<templates, is_enrolled, phase, pre, last, sessions, auth_logs, now, tokens>>

\* AuthService.reset_password(token, new_password)
ResetPassword(token, new_password) ==
    /\ LET r == reset_password(users, token, new_password, now)
       IN  /\ users' = r.users
           /\ reply' = Reply("reset", 200, r.ok, 0, NoToken)
    /\ served' = served + 1
    /\ UNCHANGED <<call, files, workers>>
    /\ UNCHANGED <<templates, is_enrolled, phase, pre, last, sessions, auth_logs, now,
                   tokens, reset_tokens>>

\* POST /users/deactivate
Deactivate(token) ==
    /\ LET i == get_current_user(users, token, now)
       IN  IF i = 0
           THEN /\ reply' = Reply("deactivate", 401, FALSE, 0, NoToken)
                /\ UNCHANGED users
           ELSE /\ users' = deactivate_user(users, users[i].id).users
                /\ reply' = Reply("deactivate", 200, TRUE, users[i].id, NoToken)
    /\ served' = served + 1
    /\ UNCHANGED <<call, files, workers>>
    /\ UNCHANGED <<templates, is_enrolled, phase, pre, last, sessions, auth_logs, now,
                   tokens, reset_tokens>>

\* DELETE /users/profile
DeleteAccount(token) ==
    /\ LET i == get_current_user(users, token, now)
       IN  IF i = 0
           THEN /\ reply' = Reply("delete-account", 401, FALSE, 0, NoToken)
                /\ UNCHANGED <<users, templates, auth_logs, is_enrolled>>
           ELSE LET d == delete_user(users, templates, auth_logs, users[i].id)
                IN  /\ users' = d.users
                    /\ templates' = d.templates
                    /\ auth_logs' = d.auth_logs
                    /\ is_enrolled' = [is_enrolled EXCEPT ![users[i].id] = FALSE]
                    /\ reply' = Reply("delete-account", 200, TRUE, users[i].id, NoToken)
    /\ served' = served + 1
    /\ UNCHANGED <<call, files, workers>>
    /\ UNCHANGED <<phase, pre, last, sessions, now, tokens, reset_tokens>>

\* POST /auth/logout: the bearer token is read from the header and the
\* handler answers; call keeps the token that was presented
Logout(token) ==
    /\ reply' = Reply("logout", 200, TRUE, 0, NoToken)
    /\ call' = Call("logout", <<token>>, <<"Logout successful">>)
    /\ served' = served + 1
    /\ UNCHANGED <<templates, is_enrolled, phase, pre, last, sessions,
                   users, auth_logs, now, tokens, reset_tokens, files, workers>>

\* Half an hour passes
Tick ==
    /\ now < MaxTime
    /\ now' = now + 1
    /\ UNCHANGED <<templates, is_enrolled, phase, pre, last, sessions,
                   users, auth_logs, tokens, reset_tokens, reply, served, call, files, workers>>

\* The account requests: registrations of each name with its own address
\* or the other one, logins by name with the right and a wrong password
RegistrationPasswords == {"pw-one"}

LoginVideos == VideoPayloads({FaceFrame(<<1, 0>>, QualityOne)}, 1)

\* A run handles at most MaxRequests account requests
Budget == served < MaxRequests

\* The ledger has room for one more record
LogRoom == Len(auth_logs) < MaxLogs

NextAccounts ==
    \/ Budget /\ LogRoom
       /\ \E n \in Usernames, e \in Emails, p \in RegistrationPasswords : Register(n, e, p)
    \/ Budget /\ \E n \in Usernames, e \in Emails, p \in RegistrationPasswords,
                    v \in AccountVideos : RegisterBiometric(n, e, p, v)
    \/ Budget /\ LogRoom /\ \E n \in Usernames, p \in Passwords : Login(n, p)
    \/ Budget /\ LogRoom
       /\ \E n \in Usernames, p \in Passwords, v \in LoginVideos : LoginBiometric(n, p, v)
    \/ Budget /\ \E e \in Emails : ResetPasswordRequest(e)
    \/ Budget /\ \E t \in 1..MaxResets, p \in Passwords : ResetPassword(t, p)
    \/ Budget /\ \E t \in tokens \cup {ForgedToken} : Deactivate(t)
    \/ Budget /\ \E t \in tokens \cup {ForgedToken} : DeleteAccount(t)
    \/ Tick

SpecAccounts == InitAccounts /\ [][NextAccounts]_vars

\* Password logins. alice is registered and has mistyped her password
\* attempts times; a second user registers under a name that is alice's
\* address (a username is any string of 3 to 50 characters)
InitLogin(attempts) ==
    /\ templates = <<>>
    /\ is_enrolled = [u \in Users |-> FALSE]
    /\ phase = "idle"
    /\ pre = NoSnapshot
    /\ last = Exchange(NoRequest, NoResult, {})
    /\ sessions = [s \in Sessions |-> IdleSession]
    /\ users = <<[User(1, "alice", "alice@x.org", "pw-one")
                    EXCEPT !.failed_login_attempts = attempts]>>
    /\ auth_logs = [i \in 1..(attempts + 1) |->
                      IF i = 1 THEN AuthLog(1, 1, "alice", "registration", "success", FALSE)
                      ELSE AuthLog(i, 0, "alice", "password", "failure", FALSE)]
    /\ now = StartTime
    /\ tokens = {}
    /\ reset_tokens = 0
    /\ reply = NoReply
    /\ served = 0
    /\ call = NoCall
    /\ files = {}
    /\ workers = [w \in Workers |-> IdleWorker]

LoginNames == {"alice", "bob", "alice@x.org"}

SpecLogin ==
    /\ \E attempts \in {0, LockoutAttempts - 1} : InitLogin(attempts)
    /\ [][\/ Budget /\ Register("alice@x.org", "bob@x.org", "pw-two")
          \/ Budget /\ \E n \in LoginNames, p \in Passwords : Login(n, p)
          \/ Budget /\ \E t \in tokens : Deactivate(t)
          \/ Tick]_vars

\* Sessions of alice: she logs in, logs out with a token she holds, and
\* presents her tokens again
\* Biometric logins against an account registered with its face: every
\* combination of known and unknown name, right and wrong password, and a
\* video that matches, does not match or cannot be decoded
BiometricLoginVideos ==
    {MalformedPayload}
    \cup VideoPayloads({FaceFrame(<<1, 0>>, QualityOne), FaceFrame(<<0, 1>>, QualityOne)}, 1)

SpecBiometricLogin ==
    /\ InitAccounts
    /\ [][\/ Budget /\ \E v \in BiometricLoginVideos :
                          RegisterBiometric("alice", "alice@x.org", "pw-one", v)
          \/ Budget /\ \E n \in {"alice", "bob"}, p \in Passwords, v \in BiometricLoginVideos :
                          LoginBiometric(n, p, v)
          \/ Tick]_vars

\* Logins and password resets of alice, from a fresh account and from one
\* with four failures on record; reset tokens presented are 0 (none) and
\* every token issued or about to be
ResetEmails == {"alice@x.org", "nobody@x.org"}

SpecReset ==
    /\ \E attempts \in {0, LockoutAttempts - 1} : InitLogin(attempts)
    /\ [][\/ Budget /\ \E p \in Passwords : Login("alice", p)
          \/ Budget /\ \E e \in ResetEmails : ResetPasswordRequest(e)
          \/ Budget /\ \E token \in 0..MaxResets, p \in Passwords : ResetPassword(token, p)
          \/ Tick]_vars

SpecLogout ==
    /\ InitLogin(0)
    /\ [][\/ Budget /\ \E p \in Passwords : Login("alice", p)
          \/ Budget /\ \E t \in tokens \cup {ForgedToken} : Logout(t)
          \/ Budget /\ \E t \in tokens : Deactivate(t)
          \/ Tick]_vars

\* Accounts with a face template come and go: each name registers with its
\* own address and a video, and deletes its account with a token it holds
OwnEmail(username) == IF username = "alice" THEN "alice@x.org" ELSE "bob@x.org"

NextDeletion ==
    \/ Budget /\ \E n \in Usernames, p \in RegistrationPasswords, v \in AccountVideos :
          RegisterBiometric(n, OwnEmail(n), p, v)
    \/ Budget /\ \E t \in tokens \cup {ForgedToken} : DeleteAccount(t)
    \/ Tick

SpecDeletion == InitAccounts /\ [][NextDeletion]_vars

\* The biometric endpoints behind their request schemas, for users that
\* registered with a face video
EndpointRequests ==
    EnrollRequests(Users, {FACE},
        BadPayloads \cup VideoPayloads({FaceFrame(<<1, 0>>, QualityOne)}, 1))
    \cup EnrollRequests(Users, {FINGERPRINT}, {MissingPayload} \cup SamplePayloads({<<7>>}))
    \cup EnrollRequests(Users, {"iris"}, {MissingPayload})
    \cup VerifyRequests(Users, {FACE},
        BadPayloads \cup VideoPayloads({FaceFrame(<<1, 0>>, QualityOne)}, 1), {NoThreshold})
    \cup VerifyRequests(Users, {FINGERPRINT}, {MissingPayload} \cup SamplePayloads({<<7>>}),
        {NoThreshold})
    \cup VerifyRequests(Users, {"iris"}, {MissingPayload}, {NoThreshold})

ServeEnroll ==
    /\ phase = "pending" /\ last.req.op = "enroll"
    /\ LET req == last.req
           r == PostEnroll(templates, is_enrolled[req.user_id], req.user_id, req)
       IN  /\ WithinBounds(r.templates)
           /\ templates' = r.templates
           /\ is_enrolled' = [is_enrolled EXCEPT ![req.user_id] = r.is_enrolled]
           /\ last' = Exchange(req, r.result, {})
    /\ pre' = Snapshot(templates, is_enrolled)
    /\ phase' = "done"
    /\ UNCHANGED <<sessions, account_vars>>

ServeVerify ==
    /\ phase = "pending" /\ last.req.op = "verify"
    /\ LET req == last.req
           r == PostVerify(templates, is_enrolled[req.user_id], req.user_id, req)
       IN  /\ WithinBounds(r.templates)
           /\ templates' = r.templates
           /\ last' = Exchange(req, r.result, r.compared)
    /\ is_enrolled' = is_enrolled
    /\ pre' = Snapshot(templates, is_enrolled)
    /\ phase' = "done"
    /\ UNCHANGED <<sessions, account_vars>>

NextEndpoints ==
    \/ /\ phase = "idle" /\ Budget
       /\ \E n \in Usernames, p \in RegistrationPasswords, v \in AccountVideos :
             RegisterBiometric(n, OwnEmail(n), p, v)
    \/ \E req \in EndpointRequests :
          get_user_by_id(users, req.user_id) # 0 /\ Receive(req)
    \/ ServeEnroll
    \/ ServeVerify
    \/ Respond

SpecEndpoints == InitAccounts /\ [][NextEndpoints]_vars

\* ------------------------------------------------------------------------
\* Direct calls of the service functions, on arguments drawn at the start
\* ------------------------------------------------------------------------
InitCall(calls) ==
    /\ templates = <<>>
    /\ is_enrolled = [u \in Users |-> FALSE]
    /\ phase = "idle"
    /\ pre = NoSnapshot
    /\ last = Exchange(NoRequest, NoResult, {})
    /\ sessions = [s \in Sessions |-> IdleSession]
    /\ users = RegisteredUsers
    /\ auth_logs = RegistrationLogs
    /\ now = StartTime
    /\ tokens = {}
    /\ reset_tokens = 0
    /\ reply = NoReply
    /\ served = 0
    /\ call \in calls
    /\ files = {}
    /\ workers = [w \in Workers |-> IdleWorker]

Return(result) ==
    /\ call.result = <<>>
    /\ call' = [call EXCEPT !.result = result]
    /\ UNCHANGED <<templates, is_enrolled, phase, pre, last, sessions,
                   users, auth_logs, now, tokens, reset_tokens, reply, served, files, workers>>

\* Feature vectors of 1 to MaxDims components, each -1, 0 or 1
FeatureVectors == UNION {[1..n -> {-1, 0, 1}] : n \in 1..MaxDims}

\* Both scorers on every pair of feature vectors of equal length
ScorerCalls ==
    {Call("similarity", <<p[1], p[2]>>, <<>>) :
        p \in {q \in FeatureVectors \X FeatureVectors : Len(q[1]) = Len(q[2])}}

Scorers ==
    /\ call.fn = "similarity"
    /\ Return([face |-> calculate_similarity(call.args[1], call.args[2]),
               fingerprint |-> calculate_fingerprint_similarity(call.args[1], call.args[2])])

\* Face regions of up to MaxDims grey pixels, each 0..MaxPixel
FaceRegions == UNION {[1..n -> 0..MaxPixel] : n \in 0..MaxDims}

SpecExtraction ==
    /\ InitCall({Call("extract_face_encoding", <<g>>, <<>>) : g \in FaceRegions})
    /\ [][/\ call.fn = "extract_face_encoding"
          /\ Return(<<extract_face_encoding(call.args[1])>>)]_vars

\* Videos of up to MaxExtra frames more than the limit; frame i has content i
Videos ==
    {Video([i \in 1..n |-> i], f) : n \in 0..(FrameLimit + MaxExtra),
                                    f \in 0..(FrameLimit + MaxExtra)}

\* One iteration of the reading loop with a limit test that lets one frame
\* too many through
extract_frames_OverLimit ==
    /\ call.fn = "extract_frames"
    /\ LET video  == call.args[1]
           frames == call.args[2]
           k      == Len(frames) + 1
       IN  IF k = video.fault THEN Return(<<<<>>>>)
           ELSE IF k > Len(video.frames) THEN Return(<<frames>>)
           ELSE LET appended == Append(frames, video.frames[k])
                IN  IF Len(appended) > FrameLimit THEN Return(<<appended>>)
                    ELSE /\ call.result = <<>>
                         /\ call' = [call EXCEPT !.args[2] = appended]
                         /\ UNCHANGED <<templates, is_enrolled, phase, pre, last,
                                        sessions, users, auth_logs, now, tokens,
                                        reset_tokens, reply, served, files, workers>>

\* BiometricService.extract_frames, one iteration of its reading loop per
\* step; call.args[2] is the local list frames. An exception anywhere in the
\* try block returns [], ret = False ends the loop, and so does the 30th
\* frame.
extract_frames ==
    /\ call.fn = "extract_frames"
    /\ LET video  == call.args[1]
           frames == call.args[2]
           k      == Len(frames) + 1
       IN  IF k = video.fault THEN Return(<<<<>>>>)
           ELSE IF k > Len(video.frames) THEN Return(<<frames>>)
           ELSE LET appended == Append(frames, video.frames[k])
                IN  IF Len(appended) >= FrameLimit THEN Return(<<appended>>)
                    ELSE /\ call.result = <<>>
                         /\ call' = [call EXCEPT !.args[2] = appended]
                         /\ UNCHANGED <<templates, is_enrolled, phase, pre, last,
                                        sessions, users, auth_logs, now, tokens,
                                        reset_tokens, reply, served, files, workers>>

\* The call runs to its end once started: nothing else is scheduled in it
SpecExtractFrames ==
    /\ InitCall({Call("extract_frames", <<v, <<>>>>, <<>>) :
                    v \in {w \in Videos : w.fault <= Len(w.frames)}})
    /\ [][extract_frames]_vars
    /\ WF_vars(extract_frames)

\* ------------------------------------------------------------------------
\* extract_frames on parallel workers sharing the working directory
\* ------------------------------------------------------------------------
\* The file of that name, as a set of at most one element
FileNamed(name) == {f \in files : f.name = name}

\* What the reading loop returns for the bytes a capture has open: nothing
\* when a frame raises, else the first frames up to the limit
Decoded(video) ==
    IF video.fault \in 1..Len(video.frames) /\ video.fault <= FrameLimit THEN <<>>
    ELSE SubSeq(video.frames, 1,
                IF Len(video.frames) < FrameLimit THEN Len(video.frames) ELSE FrameLimit)

\* temp_filename = f"temp_video_{datetime.now().timestamp()}.mp4"
NameFile(w) ==
    /\ workers[w].pc = "name"
    /\ workers' = [workers EXCEPT ![w].temp_filename = now, ![w].pc = "write"]
    /\ UNCHANGED <<templates, is_enrolled, phase, pre, last, sessions,
                   users, auth_logs, now, tokens, reset_tokens, reply, served,
                   call, files>>

\* with open(temp_filename, 'wb') as f: f.write(video_bytes)
WriteFile(w) ==
    /\ workers[w].pc = "write"
    /\ files' = (files \ FileNamed(workers[w].temp_filename))
                    \cup {[name |-> workers[w].temp_filename,
                           content |-> workers[w].video_bytes]}
    /\ workers' = [workers EXCEPT ![w].pc = "open"]
    /\ UNCHANGED <<templates, is_enrolled, phase, pre, last, sessions,
                   users, auth_logs, now, tokens, reset_tokens, reply, served, call>>

\* cap = cv2.VideoCapture(temp_filename): the capture holds what the file of
\* that name holds now, and nothing when there is no such file
OpenCapture(w) ==
    /\ workers[w].pc = "open"
    /\ LET found == FileNamed(workers[w].temp_filename)
       IN  workers' = [workers EXCEPT
                ![w].cap = IF found = {} THEN NoBytes
                           ELSE (CHOOSE f \in found : TRUE).content,
                ![w].pc = "read"]
    /\ UNCHANGED <<templates, is_enrolled, phase, pre, last, sessions,
                   users, auth_logs, now, tokens, reset_tokens, reply, served,
                   call, files>>

\* The reading loop and cap.release(); an exception returns [] at once and
\* skips the removal of the file
ReadFrames(w) ==
    /\ workers[w].pc = "read"
    /\ LET cap == workers[w].cap
           raised == cap.fault \in 1..Len(cap.frames) /\ cap.fault <= FrameLimit
       IN  workers' = [workers EXCEPT
                ![w].frames = Decoded(cap),
                ![w].pc = IF raised THEN "done" ELSE "remove"]
    /\ UNCHANGED <<templates, is_enrolled, phase, pre, last, sessions,
                   users, auth_logs, now, tokens, reset_tokens, reply, served,
                   call, files>>

\* if os.path.exists(temp_filename): os.remove(temp_filename); return frames
RemoveFile(w) ==
    /\ workers[w].pc = "remove"
    /\ files' = files \ FileNamed(workers[w].temp_filename)
    /\ workers' = [workers EXCEPT ![w].pc = "done"]
    /\ UNCHANGED <<templates, is_enrolled, phase, pre, last, sessions,
                   users, auth_logs, now, tokens, reset_tokens, reply, served, call>>

\* Every worker is handed a video of its own: frames tagged with the worker,
\* one or two of them, sound or with a first frame that raises
InitWorkers ==
    /\ templates = <<>>
    /\ is_enrolled = [u \in Users |-> FALSE]
    /\ phase = "idle"
    /\ pre = NoSnapshot
    /\ last = Exchange(NoRequest, NoResult, {})
    /\ sessions = [s \in Sessions |-> IdleSession]
    /\ users = RegisteredUsers
    /\ auth_logs = RegistrationLogs
    /\ now = StartTime
    /\ tokens = {}
    /\ reset_tokens = 0
    /\ reply = NoReply
    /\ served = 0
    /\ call = Call("extract_frames", <<>>, <<>>)
    /\ files = {}
    /\ workers \in [Workers -> {Worker("name", Video([i \in 1..n |-> 10 * w + i], f), 0,
                                       NoBytes, <<>>) :
                                    w \in Workers, n \in 1..2, f \in 0..1}]
    /\ \A w \in Workers : workers[w].video_bytes.frames[1] = 10 * w + 1

SpecWorkers ==
    /\ InitWorkers
    /\ [][\/ \E w \in Workers : NameFile(w)
          \/ \E w \in Workers : WriteFile(w)
          \/ \E w \in Workers : OpenCapture(w)
          \/ \E w \in Workers : ReadFrames(w)
          \/ \E w \in Workers : RemoveFile(w)
          \/ Tick]_vars

\* A token of either type, issued to a registered user at some time, is
\* presented to get_current_user and to refresh_access_token at a later time:
\* at once, at and right after the expiry of an access token, and at and
\* right after the expiry of a refresh token
TokenChecks ==
    /\ call.fn = "token_checks"
    /\ Return([current_user |-> get_current_user(users, call.args[1], call.args[2]),
               refreshed |-> refresh_access_token(users, call.args[1], call.args[2]).ok])

SpecTokens ==
    /\ InitCall(UNION {{Call("token_checks", <<token, t + later>>, <<>>) :
                            token \in create_tokens(RegisteredUsers[i], t),
                            later \in {0, ACCESS_TOKEN_EXPIRE_MINUTES,
                                       ACCESS_TOKEN_EXPIRE_MINUTES + 1,
                                       REFRESH_TOKEN_EXPIRE_DAYS,
                                       REFRESH_TOKEN_EXPIRE_DAYS + 1}} :
                        i \in 1..Len(RegisteredUsers), t \in StartTime..MaxTime})
    /\ [][TokenChecks]_vars

SpecScorers == InitCall(ScorerCalls) /\ [][Scorers]_vars

\* ------------------------------------------------------------------------
\* Properties
\* ------------------------------------------------------------------------
Modalities == {FACE, FINGERPRINT}

\* The response to a request of kind op is ready
Done(op) == phase = "done" /\ last.req.op = op

\* The handler reached the service (no HTTP error)
Served == last.result.status = 200

ActiveOf(ts, u, m) ==
    {i \in Indices(ts) : ts[i].user_id = u /\ ts[i].biometric_type = m /\ ts[i].is_active}

HasActive(ts, u) == \E i \in Indices(ts) : ts[i].user_id = u /\ ts[i].is_active

\* The rows of ts whose usage counters differ from those of the same rows in old
UsageChanged(old, ts) ==
    {i \in Indices(ts) : \/ ts[i].verification_count # old[i].verification_count
                         \/ ts[i].last_used # old[i].last_used}

\* C1: for every user and modality, at most one template is both active and
\* primary, in every state enroll, delete and set-primary requests reach
C1_PrimaryUniqueness ==
    \A u \in Users, m \in Modalities :
        Cardinality({i \in ActiveOf(templates, u, m) : templates[i].is_primary}) <= 1

\* C1 witness: set-primary succeeded for a user holding two active templates
\* of one modality
C1_Witness ==
    /\ Done("set_primary") /\ Served
    /\ \E m \in Modalities :
          /\ Cardinality(ActiveOf(templates, last.req.user_id, m)) >= 2
          /\ \E i \in ActiveOf(templates, last.req.user_id, m) :
                templates[i].is_primary /\ ~pre.templates[i].is_primary

C3_ComparesOnlyActiveOfModality ==
    Done("verify") =>
        LET allowed == {pre.templates[i].id :
                          i \in ActiveOf(pre.templates, last.req.user_id, last.req.biometric_type)}
        IN  /\ last.compared \subseteq allowed
            /\ \A i \in UsageChanged(pre.templates, templates) : templates[i].id \in allowed

NoTemplateMessages ==
    {"No biometric templates found for user", "No fingerprint templates found for user",
     "User has no biometric templates enrolled"}

\* C4: a verify call of a user without active templates of the requested
\* modality answers success = false with the no-templates message, whatever
\* the payload and whatever the user holds in the other modality
C4_NoTemplatesFailsClosed ==
    (/\ Done("verify")
     /\ last.req.biometric_type \in Modalities
     /\ last.req.payload.kind # "missing"
     /\ ActiveOf(pre.templates, last.req.user_id, last.req.biometric_type) = {}) =>
        /\ ~last.result.success
        /\ last.result.message \in NoTemplateMessages

\* C5: a successful verify call adds 1 to verification_count of exactly one
\* template and sets its last_used; a failed one changes no usage counter
C5_UsageRecordedOncePerSuccess ==
    Done("verify") =>
        LET changed == UsageChanged(pre.templates, templates)
        IN  IF last.result.success
            THEN /\ Cardinality(changed) = 1
                 /\ \A i \in changed :
                       /\ templates[i].verification_count
                            = pre.templates[i].verification_count + 1
                       /\ templates[i].last_used # pre.templates[i].last_used
            ELSE changed = {}

\* The vectors a verify request yields: one per frame with an encoded face,
\* or the features of the fingerprint sample
ExtractedVectors(req) ==
    IF req.payload.kind # "ok" THEN {}
    ELSE IF req.biometric_type = FACE
    THEN {req.payload.frames[k].encoding : k \in
            {j \in 1..Len(req.payload.frames) :
                /\ req.payload.frames[j].faces > 0
                /\ req.payload.frames[j].encoding # NoVec}}
    ELSE {extract_fingerprint_features(req.payload.sample)}

Similarity(m, a, b) ==
    IF m = FACE THEN calculate_similarity(a, b) ELSE calculate_fingerprint_similarity(a, b)

\* The best score of row i of ts over the vectors of the request
RowScores(ts, i, req) ==
    {Similarity(req.biometric_type, v, decrypt_data(ts[i].template_data)) :
        v \in ExtractedVectors(req)}

PairScores(ts, req) ==
    UNION {RowScores(ts, i, req) : i \in ActiveOf(ts, req.user_id, req.biometric_type)}

MaxScore(S) == CHOOSE x \in S : \A y \in S : ~ScoreGT(y, x)

\* The comparison step of the last verify request was reached
Compared ==
    /\ Done("verify") /\ Served
    /\ last.req.biometric_type \in Modalities
    /\ PairScores(pre.templates, last.req) # {}

\* C6: when verify reaches the comparison step, success is true exactly when
\* the maximum similarity over all (extracted vector, active template) pairs
\* is >= the effective threshold -- the supplied one whenever one is given,
\* 0.0 included, else 0.6 for face and 0.75 for fingerprint -- and
\* threshold_used is that effective threshold
C6_ThresholdDecision ==
    Compared =>
        LET effective == IF last.req.threshold.given THEN last.req.threshold.value
                         ELSE IF last.req.biometric_type = FACE THEN 60 ELSE 75
            best == MaxScore(PairScores(pre.templates, last.req))
        IN  /\ last.result.success <=> ScoreGE(best, effective)
            /\ last.result.threshold_used = [given |-> TRUE, value |-> effective]
            /\ ScoreEQ(last.result.similarity_score, best)

\* C6 witness: a verification with the supplied threshold 0.0 against two
\* active templates, from two extracted vectors
C6_Witness ==
    /\ Compared
    /\ last.req.threshold = [given |-> TRUE, value |-> 0]
    /\ Cardinality(ActiveOf(pre.templates, last.req.user_id, last.req.biometric_type)) >= 2
    /\ Cardinality(ExtractedVectors(last.req)) >= 2
    /\ last.result.success

\* C7: whenever verify returns success = true, the result names a winning
\* template, it is the first active template of the modality (in store
\* order) whose score equals the maximum, and usage is recorded on it alone
C7_FirstMaximumWins ==
    (Done("verify") /\ last.result.success) =>
        LET rows == ActiveOf(pre.templates, last.req.user_id, last.req.biometric_type)
            best == MaxScore(PairScores(pre.templates, last.req))
            attains(i) == \E x \in RowScores(pre.templates, i, last.req) : ScoreEQ(x, best)
        IN  /\ last.result.template_id # NoneId
            /\ PairScores(pre.templates, last.req) # {}
            /\ \E i \in rows :
                  /\ pre.templates[i].id = last.result.template_id
                  /\ attains(i)
                  /\ \A j \in rows : j < i => ~attains(j)
                  /\ UsageChanged(pre.templates, templates) = {i}

\* The frames of the last enroll request that yielded a vector
Yielding(frames) ==
    {k \in 1..Len(frames) : frames[k].faces > 0 /\ frames[k].encoding # NoVec}

\* The first frame holding the highest quality among the yielding frames
FirstBest(frames) ==
    CHOOSE k \in Yielding(frames) :
        /\ \A j \in Yielding(frames) : frames[j].quality <= frames[k].quality
        /\ \A j \in Yielding(frames) : j < k => frames[j].quality < frames[k].quality

FaceEnrolled == Done("enroll") /\ last.req.biometric_type = FACE /\ last.result.success

\* C8: the template a face enrollment persists holds the vector of the
\* highest-quality (vector, quality) pair of its frames, the first such pair
\* in frame order when several share it; quality_score is that pair's quality
C8_BestQualitySelected ==
    FaceEnrolled =>
        LET frames == last.req.payload.frames
            row == templates[Len(templates)]
        IN  /\ Yielding(frames) # {}
            /\ row.id = last.result.template_id
            /\ decrypt_data(row.template_data) = frames[FirstBest(frames)].encoding
            /\ row.quality_score = frames[FirstBest(frames)].quality
            /\ last.result.quality_score = frames[FirstBest(frames)].quality

\* C8 witness: an enrollment from two frames of different vectors that share
\* the highest quality
C8_Witness ==
    /\ FaceEnrolled
    /\ \E j, k \in Yielding(last.req.payload.frames) :
          /\ j < k
          /\ last.req.payload.frames[j].quality = last.req.payload.frames[k].quality
          /\ last.req.payload.frames[j].encoding # last.req.payload.frames[k].encoding
          /\ \A n \in Yielding(last.req.payload.frames) :
                last.req.payload.frames[n].quality <= last.req.payload.frames[k].quality

\* C9: a face enrollment of a decodable video fails, writing no template,
\* exactly when no frame yielded a vector; with at least one vector, whatever
\* its quality, it persists a template and returns success = true
C9_FailsOnlyWithoutVector ==
    (Done("enroll") /\ last.req.biometric_type = FACE /\ last.req.payload.kind = "ok") =>
        IF Yielding(last.req.payload.frames) = {}
        THEN ~last.result.success /\ Len(templates) = Len(pre.templates)
        ELSE last.result.success /\ Len(templates) = Len(pre.templates) + 1

FingerprintEnrolled ==
    Done("enroll") /\ last.req.biometric_type = FINGERPRINT /\ last.result.success

\* C10: right after enroll_fingerprint(user, s), verify_fingerprint(user, s)
\* with the default threshold returns success = true, a similarity_score >=
\* threshold_used, and the id of the template that enrollment created
C10_EnrollThenVerify ==
    FingerprintEnrolled =>
        LET v == RouterVerify(templates, is_enrolled[last.req.user_id], last.req.user_id,
                              FINGERPRINT, last.req.payload, NoThreshold).result
        IN  /\ v.success
            /\ ScoreGE(v.similarity_score, v.threshold_used.value)
            /\ v.threshold_used.value = 75
            /\ v.template_id = last.result.template_id

\* C10 witness: a fingerprint enrollment of a user who already held an active
\* template of the same sample, which stays in the store
C10_Witness ==
    /\ FingerprintEnrolled
    /\ ~last.req.replace_existing
    /\ \E i \in ActiveOf(pre.templates, last.req.user_id, FINGERPRINT) :
          decrypt_data(pre.templates[i].template_data)
            = extract_fingerprint_features(last.req.payload.sample)

\* The rows of ts with id tid (ids are unique: at most one)
RowsWithId(ts, tid) == {i \in Indices(ts) : ts[i].id = tid}

\* The rows of ts that user u owns with id tid
OwnedWithId(ts, u, tid) == {i \in RowsWithId(ts, tid) : ts[i].user_id = u}

\* The active rows of user u in ts other than those in gone
OtherActive(ts, u, gone) ==
    {j \in Indices(ts) \ gone : ts[j].user_id = u /\ ts[j].is_active}

\* C11: a delete-template request that removes the user's last active
\* template takes is_enrolled from true to false; one that leaves the user
\* another active template leaves is_enrolled true
C11_DeletionUpdatesEnrollment ==
    (Done("delete") /\ Served) =>
        LET u == last.req.user_id
            gone == OwnedWithId(pre.templates, u, last.req.template_id)
        IN  /\ gone # {}
            /\ ((\E i \in gone : pre.templates[i].is_active)
                  /\ OtherActive(pre.templates, u, gone) = {})
                 => (pre.is_enrolled[u] /\ ~is_enrolled[u])
            /\ OtherActive(pre.templates, u, gone) # {}
                 => (pre.is_enrolled[u] /\ is_enrolled[u])

\* C11 witness: the last active template of a user who keeps an inactive one
\* was deleted, and is_enrolled went from true to false
C11_Witness ==
    /\ Done("delete") /\ Served
    /\ \E i \in OwnedWithId(pre.templates, last.req.user_id, last.req.template_id) :
          pre.templates[i].is_active
    /\ OtherActive(pre.templates, last.req.user_id,
                   OwnedWithId(pre.templates, last.req.user_id, last.req.template_id)) = {}
    /\ \E j \in Indices(templates) :
          templates[j].user_id = last.req.user_id /\ ~templates[j].is_active
    /\ pre.is_enrolled[last.req.user_id] /\ ~is_enrolled[last.req.user_id]

\* The rows of a store as a set
RowSet(ts) == {ts[i] : i \in Indices(ts)}

\* C12: delete_template answers false, changing no template and no user
\* flag, when no template has that id and owner; otherwise it answers true
\* and removes exactly that template
C12_DeleteFailsClosed ==
    Done("delete") =>
        LET gone == OwnedWithId(pre.templates, last.req.user_id, last.req.template_id)
        IN  IF gone = {}
            THEN /\ last.result.status = 404
                 /\ templates = pre.templates
                 /\ is_enrolled = pre.is_enrolled
            ELSE /\ last.result.status = 200
                 /\ Cardinality(gone) = 1
                 /\ Len(templates) = Len(pre.templates) - 1
                 /\ RowSet(templates) = RowSet(pre.templates) \ {pre.templates[i] : i \in gone}

\* C12 witness: a user asked to delete a template that exists and belongs to
\* another user, and was refused
C12_Witness ==
    /\ Done("delete")
    /\ last.result.status = 404
    /\ \E i \in RowsWithId(pre.templates, last.req.template_id) :
          pre.templates[i].user_id # last.req.user_id

\* C13: set_primary on a template that is inactive, does not exist or belongs
\* to another user fails and changes no is_primary flag; on an active template
\* of the caller it ends with that template primary and no other template of
\* the user primary
C13_SetPrimaryContract ==
    Done("set_primary") =>
        LET u == last.req.user_id
            target == OwnedWithId(pre.templates, u, last.req.template_id)
        IN  IF target = {} \/ (\E i \in target : ~pre.templates[i].is_active)
            THEN /\ last.result.status \in {400, 404}
                 /\ templates = pre.templates
            ELSE /\ last.result.status = 200
                 /\ Len(templates) = Len(pre.templates)
                 /\ \A i \in Indices(templates) :
                       templates[i].user_id = u => (templates[i].is_primary <=> i \in target)
                 /\ \A i \in Indices(templates) :
                       templates[i].user_id # u => templates[i] = pre.templates[i]

\* C13 witness: set_primary was refused for an inactive template of the
\* caller while another template of the caller is primary
C13_Witness ==
    /\ Done("set_primary")
    /\ last.result.status = 400
    /\ \E i \in OwnedWithId(pre.templates, last.req.user_id, last.req.template_id) :
          ~pre.templates[i].is_active
    /\ \E j \in Indices(templates) :
          templates[j].user_id = last.req.user_id /\ templates[j].is_primary

\* The rows of user u in ts that are marked primary, of any modality
PrimaryOf(ts, u) == {i \in Indices(ts) : ts[i].user_id = u /\ ts[i].is_primary}

\* An operation that marks a template primary has completed successfully
MarkedPrimary ==
    \/ Done("enroll") /\ last.result.success
    \/ Done("set_primary") /\ Served

\* C14: right after face enroll, fingerprint enroll or set_primary has marked
\* a template primary, the user has exactly one template with is_primary =
\* true in total, whatever the modality and active flag of the others
C14_OnePrimaryInTotal ==
    MarkedPrimary => Cardinality(PrimaryOf(templates, last.req.user_id)) = 1

\* A replace-existing enroll request for a supported modality has completed
Replaced ==
    /\ Done("enroll")
    /\ last.req.replace_existing
    /\ last.req.biometric_type \in Modalities

C16_NoReplaceKeepsActive ==
    (Done("enroll") /\ ~last.req.replace_existing) =>
        \A i \in Indices(pre.templates) :
            pre.templates[i].user_id = last.req.user_id =>
                /\ i <= Len(templates)
                /\ templates[i].id = pre.templates[i].id
                /\ templates[i].is_active = pre.templates[i].is_active

Descends(r, old) ==
    \E i \in Indices(old) :
        /\ old[i].id = r.id
        /\ old[i].user_id = r.user_id
        /\ old[i].biometric_type = r.biometric_type
        /\ old[i].template_data = r.template_data

\* C19: an enroll call that returns success = true adds exactly one row,
\* owned by the requesting user, of the requested modality, active and
\* primary, whose id is the returned template_id; one that returns success =
\* false adds no row
C19_OneRowPerSuccessfulEnroll ==
    Done("enroll") =>
        IF last.result.success
        THEN /\ templates # <<>>
             /\ LET new == templates[Len(templates)]
                IN  /\ new.user_id = last.req.user_id
                    /\ new.biometric_type = last.req.biometric_type
                    /\ new.is_active /\ new.is_primary
                    /\ new.id = last.result.template_id /\ new.id # NoneId
                    /\ \A j \in 1..(Len(templates) - 1) :
                          /\ templates[j].id # new.id
                          /\ Descends(templates[j], pre.templates)
             /\ Len(templates) <= Len(pre.templates) + 1
        ELSE /\ \A j \in Indices(templates) : Descends(templates[j], pre.templates)
             /\ Len(templates) <= Len(pre.templates)
             /\ last.result.template_id = NoneId

\* C19 witness: a fingerprint enrollment of a user who held a face template
\* added one fingerprint row to the store
C19_Witness ==
    /\ Done("enroll") /\ last.result.success
    /\ last.req.biometric_type = FINGERPRINT
    /\ Len(templates) = Len(pre.templates) + 1
    /\ \E i \in Indices(pre.templates) :
          pre.templates[i].user_id = last.req.user_id /\ pre.templates[i].biometric_type = FACE

\* C18: under every interleaving of concurrent enroll and set_primary
\* requests of one user, each in its own session, no committed state holds
\* two active templates of one modality that are both primary
C18_NoTwoPrimariesCommitted ==
    \A i, j \in Indices(templates) :
        (/\ i # j
         /\ templates[i].user_id = templates[j].user_id
         /\ templates[i].biometric_type = templates[j].biometric_type
         /\ templates[i].is_active /\ templates[j].is_active)
            => ~(templates[i].is_primary /\ templates[j].is_primary)

\* C20: the authentication-attempt ledger is append-only: every step of
\* login, registration, password reset, deactivation and deletion of a user
\* keeps every record log_auth_attempt has written, unmodified
C20_LedgerAppendOnly ==
    [][\A i \in Indices(auth_logs) :
          \E j \in Indices(auth_logs') : auth_logs'[j] = auth_logs[i]]_vars

\* The rows of a table that belong to user u, in table order
RowsOf(rows, u) == SelectSeq(rows, LAMBDA r : r.user_id = u)

\* C21: after delete_user(user_id) returns true no template with that
\* user_id remains in the store, and the templates of every other user are
\* the ones they had before, unchanged
C21_DeleteUserCascadesTemplates ==
    [][(served' = served + 1 /\ reply'.op = "delete-account" /\ reply'.success) =>
          /\ RowsOf(templates', reply'.user_id) = <<>>
          /\ \A u \in Users \ {reply'.user_id} :
                RowsOf(templates', u) = RowsOf(templates, u)]_vars

\* An account was deleted, its template (the first row ever stored) is gone
\* and the template of the other user is still there
C21_Witness ==
    /\ reply.op = "delete-account" /\ reply.success
    /\ Len(templates) = 1
    /\ templates[1].id = 2
    /\ templates[1].user_id # reply.user_id

\* C22: an enroll or verify request whose modality is neither face nor
\* fingerprint, or whose payload is missing, is answered with 400 and changes
\* no template and no user flag; a request with a supported modality and a
\* payload is dispatched to the service of that modality (for verify: when
\* the user is enrolled), whose answer is returned
C22_InputErrorsRejected ==
    (phase = "done" /\ last.req.op \in {"enroll", "verify"}) =>
        LET req == last.req
            supported == req.biometric_type \in Modalities
            missing == req.payload.kind = "missing"
        IN  /\ (~supported \/ missing) =>
                    /\ last.result.status = 400
                    /\ templates = pre.templates
                    /\ is_enrolled = pre.is_enrolled
            /\ (/\ supported /\ ~missing
                /\ req.op = "verify" => pre.is_enrolled[req.user_id]) =>
                    last.result.status = 200

\* The score is a number of [0, 1]
InUnitRange(s) == s.num >= 0 /\ ~ScoreGT(s, Score(1, 1, 0))

\* C23: for all feature vectors a and b of equal length both scorers return
\* a value in [0, 1], 0 when either vector is all-zero, 1 when a = b and a
\* is non-zero, and the same value as each other
C23_ScorerContract ==
    (call.fn = "similarity" /\ call.result # <<>>) =>
        LET a == call.args[1]
            b == call.args[2]
            r == call.result
        IN  /\ InUnitRange(r.face) /\ InUnitRange(r.fingerprint)
            /\ (NormSq(a) = 0 \/ NormSq(b) = 0) =>
                    ScoreEQ(r.face, ZeroScore) /\ ScoreEQ(r.fingerprint, ZeroScore)
            /\ (a = b /\ NormSq(a) # 0) =>
                    ScoreEQ(r.face, Score(1, 1, 0)) /\ ScoreEQ(r.fingerprint, Score(1, 1, 0))
            /\ ScoreEQ(r.face, r.fingerprint)

\* C24: a register or register-biometric request whose username or email
\* already belongs to a user is answered with 400 and creates no user, and
\* after every step no two users share a username or an email
C24_DuplicateRegistrationRejected ==
    [][/\ \A n \in Usernames, e \in Emails, p \in Passwords, v \in AccountVideos :
             (/\ get_user_by_username(users, n) # 0 \/ get_user_by_email(users, e) # 0
              /\ Register(n, e, p) \/ RegisterBiometric(n, e, p, v))
                 => reply'.status = 400 /\ users' = users
       /\ \A i, j \in Indices(users') :
             i # j => /\ users'[i].username # users'[j].username
                      /\ users'[i].email # users'[j].email]_vars

\* C25: a login with the username and the password of a user who is active
\* and not locked returns success = true with an access token and sets the
\* user's last_login
C25_LoginAfterRegister ==
    [][\A n \in LoginNames, p \in Passwords :
          (/\ Login(n, p)
           /\ \E i \in Indices(users) :
                 /\ users[i].username = n
                 /\ users[i].hashed_password = get_password_hash(p)
                 /\ users[i].is_active
                 /\ ~Locked(users[i], now))
             => /\ reply'.status = 200 /\ reply'.success
                /\ reply'.token # NoToken /\ reply'.token.type = "access"
                /\ \E i \in Indices(users') :
                      users'[i].username = n /\ users'[i].last_login = now]_vars

\* The second user, whose username is the address of the first, has logged in
C25_Witness ==
    /\ reply.op = "login" /\ reply.success /\ reply.user_id = 2
    /\ \E i \in Indices(users) :
          /\ users[i].id = 2 /\ users[i].username = "alice@x.org"
          /\ users[i].last_login # NoTime

\* C26: a login with a username that matches no user, or with a wrong
\* password, returns 401, issues no token, leaves last_login unchanged and
\* appends exactly one ledger record, with auth_result "failure" and
\* token_issued false
C26_FailedLogin ==
    [][\A n \in LoginNames, p \in Passwords :
          (/\ Login(n, p)
           /\ \A i \in Indices(users) :
                 (users[i].username = n \/ users[i].email = n)
                    => users[i].hashed_password.bcrypt # p)
             => /\ reply'.status = 401 /\ reply'.token = NoToken
                /\ tokens' = tokens
                /\ Len(users') = Len(users)
                /\ \A i \in Indices(users) : users'[i].last_login = users[i].last_login
                /\ Len(auth_logs') = Len(auth_logs) + 1
                /\ SubSeq(auth_logs', 1, Len(auth_logs)) = auth_logs
                /\ auth_logs'[Len(auth_logs')].auth_result = "failure"
                /\ ~auth_logs'[Len(auth_logs')].token_issued]_vars

\* A wrong password locked the account: the fifth failure is on record
C26_Witness ==
    /\ reply.op = "login" /\ reply.status = 401
    /\ \E i \in Indices(users) :
          users[i].failed_login_attempts = LockoutAttempts /\ Locked(users[i], now)
    /\ auth_logs[Len(auth_logs)].auth_result = "failure"

\* C27: after a logout made with an access token, a later request that
\* presents the same token is not accepted by get_current_user
C27_LogoutInvalidatesToken ==
    (call.fn = "logout" /\ call.args[1].type = "access") =>
        get_current_user(users, call.args[1], now) = 0

\* C28: whenever register-biometric answers success = true ("User
\* registered with biometric data successfully"), the new user has
\* is_enrolled = true and at least one active template
C28_BiometricRegistrationEnrolls ==
    (reply.op = "register-biometric" /\ reply.success) =>
        /\ is_enrolled[reply.user_id]
        /\ \E i \in Indices(templates) :
              templates[i].user_id = reply.user_id /\ templates[i].is_active

\* C29: for a face region of zero norm (all pixels zero) extract_face_encoding
\* returns None: the frame yields no vector that could be stored or compared
C29_ZeroNormYieldsNoVector ==
    (/\ call.fn = "extract_face_encoding" /\ call.result # <<>>
     /\ NormSq(call.args[1]) = 0)
        => call.result[1] = NoVec

\* C30: extract_frames terminates on every video; what it returns is at most
\* 30 frames, the first frames of the video in stream order, and the empty
\* list when reading or converting a frame raised
C30_ExtractFramesBounded ==
    /\ <>(call.fn = "extract_frames" /\ call.result # <<>>)
    /\ [](call.fn = "extract_frames" /\ call.result # <<>> =>
            LET video == call.args[1]
                out   == call.result[1]
            IN  /\ Len(out) <= FrameLimit
                /\ Len(out) <= Len(video.frames)
                /\ out = SubSeq(video.frames, 1, Len(out))
                /\ video.fault \in 1..FrameLimit => out = <<>>)

C30_Witness ==
    /\ call.fn = "extract_frames" /\ call.result # <<>>
    /\ Len(call.args[1].frames) > FrameLimit
    /\ call.args[1].fault = 0
    /\ Len(call.result[1]) = FrameLimit

\* C31: parallel extract_frames calls share no state: between writing and
\* removing it a call's temporary file holds that call's bytes, whatever the
\* other call does, and the frames a call returns are decoded from its own
\* bytes
C31_ExtractionCallsIndependent ==
    \A w \in Workers :
        /\ workers[w].pc \in {"open", "read", "remove"} =>
                [name |-> workers[w].temp_filename,
                 content |-> workers[w].video_bytes] \in files
        /\ workers[w].pc \in {"remove", "done"} =>
                workers[w].frames = Decoded(workers[w].video_bytes)

\* C32: no increment is lost: every verification that succeeds in a parallel
\* session raises the stored verification_count of the template it used by
\* exactly 1, so that N successes leave the count N higher
C32_NoLostIncrement ==
    [][\A s \in Sessions :
          (CommitVerify(s) /\ SessionVerify(s).result.success) =>
              \A k \in Indices(sessions[s].loaded) :
                  SessionVerify(s).templates[k].verification_count
                      # sessions[s].loaded[k].verification_count =>
                    \A i \in Indices(templates) :
                        templates[i].id = sessions[s].loaded[k].id =>
                            templates'[i].verification_count
                                = templates[i].verification_count + 1]_vars

C34_BiometricLoginNeedsBoth ==
    [][\A n \in {"alice", "bob"}, p \in Passwords, v \in BiometricLoginVideos :
          LoginBiometric(n, p, v) =>
            LET a == authenticate_user(users, n, p, now)
                accepted == a.user # 0
                verified == accepted /\
                    verify_biometric(templates, a.users[a.user].id, v, NoThreshold).result.success
                record == auth_logs'[Len(auth_logs')]
            IN  /\ Len(auth_logs') = Len(auth_logs) + 1
                /\ SubSeq(auth_logs', 1, Len(auth_logs)) = auth_logs
                /\ IF verified
                   THEN /\ reply'.status = 200 /\ reply'.token # NoToken
                        /\ reply'.token \in tokens'
                        /\ record.auth_result = "success" /\ record.token_issued
                        /\ users'[a.user].last_login = now
                   ELSE /\ reply'.status = 401 /\ reply'.token = NoToken
                        /\ tokens' = tokens
                        /\ record.auth_result = "failure" /\ ~record.token_issued
                        /\ \A i \in Indices(users) :
                              users'[i].last_login = users[i].last_login]_vars

\* A right password with a video of another face was refused, after a login
\* with the matching video had been accepted
C34_Witness ==
    /\ reply.op = "login-biometric" /\ reply.status = 401
    /\ Len(auth_logs) >= 2
    /\ auth_logs[Len(auth_logs)].user_id = 1
    /\ auth_logs[Len(auth_logs)].auth_result = "failure"
    /\ auth_logs[Len(auth_logs) - 1].auth_result = "success"
    /\ auth_logs[Len(auth_logs) - 1].auth_type = "combined"
    /\ tokens # {}

\* C35: while account_locked_until of an active user is later than the
\* current time, authenticate_user returns None for every password, the
\* right one included, and changes no row: neither failed_login_attempts
\* nor account_locked_until
C35_LockedRefusesEveryPassword ==
    \A i \in Indices(users), p \in Passwords :
        (/\ users[i].is_active
         /\ users[i].account_locked_until # NoTime
         /\ users[i].account_locked_until > now)
            => authenticate_user(users, users[i].username, p, now)
                   = [users |-> users, user |-> 0]

\* A login was refused during the lock: the ledger holds two failures more
\* than the four the account started with, the counter only one more
C35_Witness ==
    /\ reply.op = "login" /\ reply.status = 401
    /\ Len(users) >= 1 /\ Locked(users[1], now)
    /\ users[1].failed_login_attempts = LockoutAttempts
    /\ Len(auth_logs) >= LockoutAttempts + 2
    /\ \A k \in 2..Len(auth_logs) : auth_logs[k].auth_result = "failure"

\* C36: in every reachable state account_locked_until is non-null only if
\* failed_login_attempts >= 5, and a successful authentication or password
\* reset leaves failed_login_attempts = 0 and account_locked_until null
C36_LockNeedsFiveFailures ==
    /\ [](\A i \in Indices(users) :
            users[i].account_locked_until # NoTime
                => users[i].failed_login_attempts >= LockoutAttempts)
    /\ [][/\ \A p \in Passwords :
                (Login("alice", p) /\ reply'.status = 200) =>
                    /\ users'[1].failed_login_attempts = 0
                    /\ users'[1].account_locked_until = NoTime
          /\ \A token \in 0..MaxResets, p \in Passwords :
                (ResetPassword(token, p) /\ reply'.success) =>
                    /\ users'[1].failed_login_attempts = 0
                    /\ users'[1].account_locked_until = NoTime]_vars

\* A locked account was reset: five failures are on record and the counter
\* and the lock are clear
C36_Witness ==
    /\ reply.op = "reset" /\ reply.success
    /\ Len(auth_logs) >= LockoutAttempts + 1
    /\ \A k \in 2..(LockoutAttempts + 1) : auth_logs[k].auth_result = "failure"
    /\ users[1].failed_login_attempts = 0
    /\ users[1].account_locked_until = NoTime

\* C37: the passing of time changes no counter; once a lock has expired the
\* next wrong password sets a new lock of 30 minutes at once; and the counter
\* returns to 0 only by a login with the right password or a password reset
C37_ExpiryKeepsCounter ==
    [][/\ Tick => users' = users
       /\ \A p \in Passwords :
             (/\ Login("alice", p)
              /\ users[1].is_active
              /\ users[1].account_locked_until # NoTime
              /\ ~(users[1].account_locked_until > now)
              /\ users[1].hashed_password.bcrypt # p)
                => /\ users'[1].failed_login_attempts = users[1].failed_login_attempts + 1
                   /\ users'[1].account_locked_until = now + LockoutTime
                   /\ reply'.status = 401
       /\ (users[1].failed_login_attempts > 0 /\ users'[1].failed_login_attempts = 0)
             => \/ \E p \in Passwords :
                      Login("alice", p) /\ users[1].hashed_password.bcrypt = p
                \/ \E token \in 0..MaxResets, p \in Passwords :
                      ResetPassword(token, p) /\ reply'.success]_vars

\* The sixth failure, after the first lock had run out, locked the account anew
C37_Witness ==
    /\ reply.op = "login" /\ reply.status = 401
    /\ users[1].failed_login_attempts = LockoutAttempts + 1
    /\ users[1].account_locked_until = now + LockoutTime
    /\ now > StartTime

\* C40: reset_password succeeds exactly with the token the user holds, which
\* is the one issued last, and before its expiry one hour after the request;
\* a successful reset clears the token, so presenting it again is rejected;
\* a rejected call changes no row
C40_ResetTokenSingleUse ==
    /\ [](users[1].password_reset_token \in {0, reset_tokens})
    /\ [][/\ \A e \in ResetEmails :
                (ResetPasswordRequest(e) /\ reply'.success) =>
                    /\ users'[1].password_reset_token = reset_tokens'
                    /\ reset_tokens' = reset_tokens + 1
                    /\ users'[1].password_reset_expires = now + ResetTokenLifetime
          /\ \A token \in 0..MaxResets, p \in Passwords :
                ResetPassword(token, p) =>
                    LET valid == /\ token # 0
                                 /\ token = users[1].password_reset_token
                                 /\ users[1].password_reset_expires > now
                    IN  /\ reply'.success = valid
                        /\ ~valid => users' = users
                        /\ valid => /\ users'[1].password_reset_token = 0
                                    /\ users'[1].hashed_password = get_password_hash(p)
                                    /\ reset_password(users', token, p, now)
                                           = [ok |-> FALSE, users |-> users']]_vars

\* The token of a finished reset was presented again and rejected
C40_Witness ==
    /\ reply.op = "reset" /\ ~reply.success
    /\ reset_tokens >= 1
    /\ users[1].password_reset_token = 0
    /\ users[1].hashed_password = get_password_hash("pw-two")
    /\ served >= 3

\* C38: a refresh token is never accepted by get_current_user, an access
\* token never by refresh_access_token, and an expired token of either type
\* by neither
C38_TokenTypesNotInterchangeable ==
    (call.fn = "token_checks" /\ call.result # <<>>) =>
        LET token == call.args[1]
            expired == token.exp < call.args[2]
        IN  /\ token.type = "refresh" => call.result.current_user = 0
            /\ token.type = "access" => ~call.result.refreshed
            /\ expired => call.result.current_user = 0 /\ ~call.result.refreshed

\* A refresh token in its last valid moment was refused as an access token
\* and accepted for a refresh
C38_Witness ==
    /\ call.fn = "token_checks" /\ call.result # <<>>
    /\ call.args[1].type = "refresh"
    /\ call.args[1].exp = call.args[2]
    /\ call.result.current_user = 0
    /\ call.result.refreshed

\* C39: once a user is deactivated, authenticate_user fails for every
\* password and changes no row (failed_login_attempts included), and
\* get_current_user and refresh_access_token fail for every token issued to
\* that user, unexpired ones included
C39_DeactivatedUserRefused ==
    \A i \in Indices(users) :
        ~users[i].is_active =>
            /\ \A p \in Passwords :
                  authenticate_user(users, users[i].username, p, now)
                      = [users |-> users, user |-> 0]
            /\ \A token \in tokens :
                  token.sub = users[i].username =>
                      /\ get_current_user(users, token, now) = 0
                      /\ ~refresh_access_token(users, token, now).ok

\* A login was refused after the deactivation, while both tokens issued
\* before it are unexpired
C39_Witness ==
    /\ reply.op = "login" /\ reply.status = 401
    /\ ~users[1].is_active
    /\ \E a \in tokens, r \in tokens :
          /\ a.sub = users[1].username /\ a.type = "access" /\ ~(a.exp < now)
          /\ r.sub = users[1].username /\ r.type = "refresh" /\ ~(r.exp < now)

====
